---- MODULE Spec2Model ----
(***************************************************************************)
(* Local-first sync of fitso.me: the change tracker (Dexie hooks, the      *)
(* global isTracking flag, the tracking-suspending operations), the        *)
(* outbox, the sync engine's pull/apply/push cycle and the remote store.   *)
(***************************************************************************)
EXTENDS Integers, Sequences, FiniteSets, TLC

\* ------------------------------------------------------------------ bounds
\* calls made in one behaviour: the user's mutations and the
\* tracking-suspending operations started by a caller
MaxCalls == 2
\* sync cycles one device starts in one behaviour (applications of one pull
\* response, where a response is applied on its own)
MaxCycles == 2

\* ------------------------------------------------------------- vocabulary
Devices == {"A", "B"}
Tables == {"items", "trips", "tripItems", "outfits", "wishlist"}
Ids == {"r1", "r2"}

\* A table's content: a function from the stored ids to their records.
EmptyTable == [x \in {} |-> 0]
NoPayload == [x \in {} |-> 0]

Rec(id, t, del) == [id |-> id, updatedAt |-> t, deleted |-> del]

\* { ...obj, ...modifications }
Merge(obj, mods) ==
    [f \in (DOMAIN obj) \cup (DOMAIN mods) |->
        IF f \in DOMAIN mods THEN mods[f] ELSE obj[f]]

\* Dexie's getObjectDiff for a put over an existing record
ObjectDiff(old, new) ==
    [f \in {g \in DOMAIN new : g \notin DOMAIN old \/ old[g] # new[g]} |-> new[f]]

TablePut(tbl, rec) ==
    [x \in (DOMAIN tbl) \cup {rec.id} |-> IF x = rec.id THEN rec ELSE tbl[x]]

TableDelete(tbl, id) == [x \in (DOMAIN tbl) \ {id} |-> tbl[x]]

RECURSIVE SeqOfSet(_)
SeqOfSet(S) ==
    IF S = {} THEN << >>
    ELSE LET x == CHOOSE y \in S : TRUE IN <<x>> \o SeqOfSet(S \ {x})

\* the sequences of at most one element of S
UpToOne(S) == { << >> } \cup { <<x>> : x \in S }

RemoveAt(s, i) == SubSeq(s, 1, i - 1) \o SubSeq(s, i + 1, Len(s))

\* ------------------------------------------------------------------ state
VARIABLES
    isInitialized,  \* changeTracker.ts: hooks already registered
    isTracking,     \* changeTracker.ts: the global tracking flag
    hooks,          \* number of hook subscriptions registered on each table
    store,          \* the local Dexie tables
    timers,         \* pending setTimeout(() => logChange(...), 0) callbacks
    outbox,         \* the change log written by logChange
    ops,            \* running applyServerChanges / bulkImport / clearTable calls
    logged,         \* number of LocalChange rows logChange has written
    muts,           \* history: the user mutations performed, in order
    calls,          \* number of calls made so far (mutations, operations started)
    engineState,    \* sync engine: Idle, Pulling, Applying, Pushing, ImageSyncing
    lastSyncVersion, \* SyncMeta.lastSyncVersion, the version cursor
    lastError,      \* SyncMeta.lastError
    pullResp,       \* the pull response being applied
    toApply,        \* the tables of the response still to apply
    pushReq,        \* the changes of the push request in flight
    cycles,         \* number of sync cycles (applications of a response) started
    remote,         \* server: the account's rows per table, each with its version
    serverVersion,  \* server: the account's metadata version
    blobs,          \* image store (R2_IMAGES): hash -> the object under images/<hash>
    imageReqs,      \* image routes: the request of each user awaiting its R2 write
    imageResp,      \* image routes: the last response sent, with its number
    imageRefs,      \* history: the <<user, hash>> pairs told an imageRef and not
                    \* released by a DELETE of that user
    meta,           \* SyncMeta of each device: the stored session
    authOp,         \* auth client: the running or last call of each device
    sessions,       \* server: the session tokens it accepts
    bucket,         \* server: the R2 objects of one account's data
    storageOps,     \* server: the sync requests being served, and where they are
    pushed,         \* history: the account's first version, the requests started
                    \* and the versions the accepted pushes returned
    demo,           \* demo mode of each device: the localStorage flag and backup
    bus,            \* the engine's event bus: the subscribed handlers, the events
                    \* published and, as history, what each handler received
    hist            \* history: the current or last cycle of each device, and
                    \* whether initializeChangeTracking was called again

trackerVars == <<isInitialized, isTracking, hooks, store, timers, outbox, ops, logged, muts>>

engineVars == <<engineState, lastSyncVersion, lastError, pullResp, toApply, pushReq>>

serverVars == <<remote, serverVersion>>

imageVars == <<blobs, imageReqs, imageResp, imageRefs>>

\* what the sync engine, the tracker and the remote store leave alone
authVars == <<meta, authOp, sessions>>

storageVars == <<bucket, storageOps, pushed>>

demoVars == <<demo>>

busVars == <<bus>>

extraVars == <<imageVars, authVars, storageVars, demoVars, busVars>>

\* what the image routes leave alone
syncVars == <<isInitialized, isTracking, hooks, store, timers, outbox, ops, logged, muts,
          calls, engineState, lastSyncVersion, lastError, pullResp, toApply, pushReq,
          cycles, remote, serverVersion, hist>>

\* what the remote data access leaves alone
notStorageVars == <<syncVars, imageVars, authVars, demoVars, busVars>>

vars == <<syncVars, extraVars>>

\* ----------------------------------------------------------- change tracker
isTrackingEnabled(d) == isTracking[d]

\* Number of user mutations performed so far; the next one is stamped with
\* the next number, which also serves as its updatedAt.
NextStamp == Len(muts) + 1

\* a hook callback without its `if (!isTracking) return`
HookCallbackAlways(d, t, id, operation, payload, origin, mut) ==
    << [table |-> t, recordId |-> id, operation |-> operation,
        payload |-> payload, origin |-> origin, mut |-> mut] >>

\* One hook callback (creating / updating / deleting) of one subscription:
\* nothing while tracking is off, otherwise one deferred logChange.
HookCallback(d, t, id, operation, payload, origin, mut) ==
    IF ~isTracking[d] THEN << >>
    ELSE << [table |-> t, recordId |-> id, operation |-> operation,
             payload |-> payload, origin |-> origin, mut |-> mut] >>

RECURSIVE Repeat(_, _)
Repeat(s, n) == IF n = 0 THEN << >> ELSE s \o Repeat(s, n - 1)

\* Every registered subscription of the table's hook runs its callback.
FireHooks(d, t, id, operation, payload, origin, mut) ==
    Repeat(HookCallback(d, t, id, operation, payload, origin, mut), hooks[d])

\* hook('creating', (primKey, obj) => logChange(table, primKey, 'create', obj))
creatingHook(d, t, primKey, obj, origin, mut) ==
    FireHooks(d, t, primKey, "create", obj, origin, mut)

\* an 'updating' hook that hands logChange the modifications alone
updatingHookDiff(d, t, modifications, primKey, obj, origin, mut) ==
    FireHooks(d, t, primKey, "update", modifications, origin, mut)

\* hook('updating', (modifications, primKey, obj) =>
\*      logChange(table, primKey, 'update', { ...obj, ...modifications }))
updatingHook(d, t, modifications, primKey, obj, origin, mut) ==
    FireHooks(d, t, primKey, "update", Merge(obj, modifications), origin, mut)

\* hook('deleting', (primKey) => logChange(table, primKey, 'delete'))
deletingHook(d, t, primKey, origin, mut) ==
    FireHooks(d, t, primKey, "delete", NoPayload, origin, mut)

\* table.put(record): 'creating' for a new key, 'updating' for an existing one
PutHooks(d, tbl, t, rec, origin, mut) ==
    IF rec.id \in DOMAIN tbl
    THEN updatingHook(d, t, ObjectDiff(tbl[rec.id], rec), rec.id, tbl[rec.id], origin, mut)
    ELSE creatingHook(d, t, rec.id, rec, origin, mut)

\* initializeChangeTracking without its `if (isInitialized) return`
initializeChangeTrackingAgain(d) ==
    /\ hooks' = [hooks EXCEPT ![d] = @ + 1]
    /\ isInitialized' = [isInitialized EXCEPT ![d] = TRUE]
    /\ UNCHANGED <<isTracking, store, timers, outbox, ops, logged, muts>>

\* if (isInitialized) return; register the three hooks on every table
initializeChangeTracking(d) ==
    /\ IF isInitialized[d]
       THEN UNCHANGED <<hooks, isInitialized>>
       ELSE /\ hooks' = [hooks EXCEPT ![d] = @ + 1]
            /\ isInitialized' = [isInitialized EXCEPT ![d] = TRUE]
    /\ UNCHANGED <<isTracking, store, timers, outbox, ops, logged, muts>>

\* ------------------------------------------------- the user's mutations
MutRecord(d, operation, t, id) ==
    [dev |-> d, operation |-> operation, table |-> t, recordId |-> id,
     tracking |-> isTracking[d], hooked |-> hooks[d] > 0]

\* db.<table>.add(obj)
UserCreate(d, t, id) ==
    /\ id \notin DOMAIN store[d][t]
    /\ LET obj == Rec(id, NextStamp, FALSE)
       IN /\ store' = [store EXCEPT ![d][t] = TablePut(@, obj)]
          /\ timers' = [timers EXCEPT ![d] = @ \o creatingHook(d, t, id, obj, "user", NextStamp)]
    /\ muts' = Append(muts, MutRecord(d, "create", t, id))
    /\ UNCHANGED <<isInitialized, isTracking, hooks, outbox, ops, logged>>

\* the modifications a user edit may carry: a new updatedAt, alone or with
\* the soft-delete marker
UserMods == { [updatedAt |-> NextStamp], [updatedAt |-> NextStamp, deleted |-> TRUE] }

\* db.<table>.update(id, modifications)
UserUpdate(d, t, id, modifications) ==
    /\ id \in DOMAIN store[d][t]
    /\ LET obj == store[d][t][id]
       IN /\ store' = [store EXCEPT ![d][t] = TablePut(@, Merge(obj, modifications))]
          /\ timers' = [timers EXCEPT ![d] =
                          @ \o updatingHook(d, t, modifications, id, obj, "user", NextStamp)]
    /\ muts' = Append(muts, MutRecord(d, "update", t, id))
    /\ UNCHANGED <<isInitialized, isTracking, hooks, outbox, ops, logged>>

\* db.<table>.delete(id)
UserDelete(d, t, id) ==
    /\ id \in DOMAIN store[d][t]
    /\ store' = [store EXCEPT ![d][t] = TableDelete(@, id)]
    /\ timers' = [timers EXCEPT ![d] = @ \o deletingHook(d, t, id, "user", NextStamp)]
    /\ muts' = Append(muts, MutRecord(d, "delete", t, id))
    /\ UNCHANGED <<isInitialized, isTracking, hooks, outbox, ops, logged>>

\* logChange(table, recordId, operation, payload): one more row in the change log
logChange(d, e) ==
    /\ logged' = [logged EXCEPT ![d] = @ + 1]
    /\ outbox' = [outbox EXCEPT ![d] = Append(@,
            [id |-> logged[d] + 1, table |-> e.table, recordId |-> e.recordId,
             operation |-> e.operation, timestamp |-> Len(muts), payload |-> e.payload,
             origin |-> e.origin, mut |-> e.mut])]

\* timer callbacks that run latest first
TimerFireLatest(d) ==
    /\ timers[d] # << >>
    /\ logChange(d, timers[d][Len(timers[d])])
    /\ timers' = [timers EXCEPT ![d] = SubSeq(@, 1, Len(@) - 1)]
    /\ UNCHANGED <<isInitialized, isTracking, hooks, store, ops, muts>>

\* a setTimeout(..., 0) callback of a hook runs
TimerFire(d) ==
    /\ timers[d] # << >>
    /\ logChange(d, Head(timers[d]))
    /\ timers' = [timers EXCEPT ![d] = Tail(@)]
    /\ UNCHANGED <<isInitialized, isTracking, hooks, store, ops, muts>>

\* a failed append that takes the record of its mutation with it
appendFailsUndoes(d) ==
    /\ timers[d] # << >>
    /\ timers' = [timers EXCEPT ![d] = Tail(@)]
    /\ store' = [store EXCEPT ![d][Head(timers[d]).table] =
                    TableDelete(@, Head(timers[d]).recordId)]
    /\ UNCHANGED <<isInitialized, isTracking, hooks, outbox, ops, logged, muts>>

\* The logChange(...) of a timer callback rejects. The callback runs after
\* the mutation's transaction, outside any try or await of the caller: the
\* rejection reaches nobody, no row is written and the data stays as it is.
appendFails(d) ==
    /\ timers[d] # << >>
    /\ timers' = [timers EXCEPT ![d] = Tail(@)]
    /\ UNCHANGED <<isInitialized, isTracking, hooks, store, outbox, ops, logged, muts>>

\* The page is closed or reloaded: the module's globals are back at their
\* initial values, the hook subscriptions, the pending timer callbacks and
\* the running calls are gone; what IndexedDB holds stays.
appStops(d) ==
    /\ isInitialized' = [isInitialized EXCEPT ![d] = FALSE]
    /\ isTracking' = [isTracking EXCEPT ![d] = TRUE]
    /\ hooks' = [hooks EXCEPT ![d] = 0]
    /\ timers' = [timers EXCEPT ![d] = << >>]
    /\ ops' = [ops EXCEPT ![d] = << >>]
    /\ UNCHANGED <<store, outbox, logged, muts>>

\* ------------------------------------- the tracking-suspending operations
\* A running call: its kind, its table, the flag it saved on entry, what it
\* still has to write, and the delete id whose get() found a record and whose
\* update() is awaited ("" when none).
Op(kind, t, was, upserts, deletes, owner) ==
    [kind |-> kind, table |-> t, wasTracking |-> was,
     upserts |-> upserts, deletes |-> deletes, updating |-> "", owner |-> owner]

OpDone(op) == op.upserts = << >> /\ op.deletes = << >> /\ op.updating = ""

\* the entry of a suspending operation without its setTrackingEnabled(false)
SuspendStartKeepsTracking(d, op) ==
    /\ ops' = [ops EXCEPT ![d] = Append(@, op)]
    /\ UNCHANGED <<isInitialized, isTracking, hooks, store, timers, outbox, logged, muts>>

\* const wasTracking = isTracking; setTrackingEnabled(false); ... first await
SuspendStart(d, op) ==
    /\ isTracking' = [isTracking EXCEPT ![d] = FALSE]
    /\ ops' = [ops EXCEPT ![d] = Append(@, op)]
    /\ UNCHANGED <<isInitialized, hooks, store, timers, outbox, logged, muts>>

\* finally { setTrackingEnabled(wasTracking) } of the call in slot i, when
\* `done`; otherwise the call goes on as `next`
SuspendContinue(d, i, next) ==
    IF OpDone(next)
    THEN /\ isTracking' = [isTracking EXCEPT ![d] = next.wasTracking]
         /\ ops' = [ops EXCEPT ![d] = RemoveAt(@, i)]
    ELSE /\ UNCHANGED isTracking
         /\ ops' = [ops EXCEPT ![d][i] = next]

\* applyServerChanges(tableName, upserts, deletes), up to its first await.
\* With nothing to apply the call runs through its finally at once.
applyServerChangesStart(d, t, upserts, deletes, owner) ==
    IF upserts = << >> /\ deletes = << >>
    THEN UNCHANGED <<isInitialized, isTracking, hooks, store, timers, outbox, ops,
                    logged, muts>>
    ELSE SuspendStart(d, Op("apply", t, isTracking[d], upserts, deletes, owner))

\* a put that keeps a local record newer than the incoming one
applyPutKeepsNewer(d, i) ==
    LET op == ops[d][i]
        record == Head(op.upserts)
        tbl == store[d][op.table]
        keeps == record.id \in DOMAIN tbl /\ tbl[record.id].updatedAt > record.updatedAt
    IN /\ op.kind = "apply"
       /\ op.upserts # << >>
       /\ IF keeps
          THEN UNCHANGED <<store, timers>>
          ELSE /\ store' = [store EXCEPT ![d][op.table] = TablePut(@, record)]
               /\ timers' = [timers EXCEPT ![d] =
                     @ \o PutHooks(d, tbl, op.table, record, "apply", 0)]
       /\ SuspendContinue(d, i, [op EXCEPT !.upserts = Tail(@)])
       /\ UNCHANGED <<isInitialized, hooks, outbox, logged, muts>>

\* await table.put(record)
applyPut(d, i) ==
    LET op == ops[d][i]
        record == Head(op.upserts)
        tbl == store[d][op.table]
    IN /\ op.kind = "apply"
       /\ op.upserts # << >>
       /\ store' = [store EXCEPT ![d][op.table] = TablePut(@, record)]
       /\ timers' = [timers EXCEPT ![d] = @ \o PutHooks(d, tbl, op.table, record, "apply", 0)]
       /\ SuspendContinue(d, i, [op EXCEPT !.upserts = Tail(@)])
       /\ UNCHANGED <<isInitialized, hooks, outbox, logged, muts>>

\* a delete loop that ends at the first id without a local record
applyGetStops(d, i) ==
    LET op == ops[d][i]
        id == Head(op.deletes)
    IN /\ op.kind = "apply"
       /\ op.upserts = << >>
       /\ op.updating = ""
       /\ op.deletes # << >>
       /\ SuspendContinue(d, i,
             IF id \in DOMAIN store[d][op.table]
             THEN [op EXCEPT !.deletes = Tail(@), !.updating = id]
             ELSE [op EXCEPT !.deletes = << >>])
       /\ UNCHANGED <<isInitialized, hooks, store, timers, outbox, logged, muts>>

\* const existing = await table.get(id)
applyGet(d, i) ==
    LET op == ops[d][i]
        id == Head(op.deletes)
    IN /\ op.kind = "apply"
       /\ op.upserts = << >>
       /\ op.updating = ""
       /\ op.deletes # << >>
       /\ SuspendContinue(d, i,
             [op EXCEPT !.deletes = Tail(@),
                        !.updating = IF id \in DOMAIN store[d][op.table] THEN id ELSE ""])
       /\ UNCHANGED <<isInitialized, hooks, store, timers, outbox, logged, muts>>

\* a delete step that flips the marker instead of setting it
applyUpdateToggle(d, i) ==
    LET op == ops[d][i]
        id == op.updating
        tbl == store[d][op.table]
    IN /\ op.kind = "apply"
       /\ op.upserts = << >>
       /\ id # ""
       /\ IF id \in DOMAIN tbl
          THEN /\ store' = [store EXCEPT ![d][op.table] =
                              TablePut(@, Merge(tbl[id], [deleted |-> ~tbl[id].deleted]))]
               /\ timers' = [timers EXCEPT ![d] =
                     @ \o updatingHook(d, op.table, [deleted |-> ~tbl[id].deleted], id,
                                       tbl[id], "apply", 0)]
          ELSE UNCHANGED <<store, timers>>
       /\ SuspendContinue(d, i, [op EXCEPT !.updating = ""])
       /\ UNCHANGED <<isInitialized, hooks, outbox, logged, muts>>

\* a delete step that removes the record instead of marking it
applyUpdateRemoves(d, i) ==
    LET op == ops[d][i]
        id == op.updating
        tbl == store[d][op.table]
    IN /\ op.kind = "apply"
       /\ op.upserts = << >>
       /\ id # ""
       /\ store' = [store EXCEPT ![d][op.table] = TableDelete(@, id)]
       /\ timers' = [timers EXCEPT ![d] = @ \o deletingHook(d, op.table, id, "apply", 0)]
       /\ SuspendContinue(d, i, [op EXCEPT !.updating = ""])
       /\ UNCHANGED <<isInitialized, hooks, outbox, logged, muts>>

\* await table.update(id, { _deleted: true }): Dexie writes, and runs the
\* 'updating' hook, only for a record that is there and that the change alters
applyUpdate(d, i) ==
    LET op == ops[d][i]
        id == op.updating
        tbl == store[d][op.table]
        modifications == [deleted |-> TRUE]
    IN /\ op.kind = "apply"
       /\ op.upserts = << >>
       /\ id # ""
       /\ IF id \in DOMAIN tbl /\ ~tbl[id].deleted
          THEN /\ store' = [store EXCEPT ![d][op.table] =
                              TablePut(@, Merge(tbl[id], modifications))]
               /\ timers' = [timers EXCEPT ![d] =
                     @ \o updatingHook(d, op.table, modifications, id, tbl[id], "apply", 0)]
          ELSE UNCHANGED <<store, timers>>
       /\ SuspendContinue(d, i, [op EXCEPT !.updating = ""])
       /\ UNCHANGED <<isInitialized, hooks, outbox, logged, muts>>

\* bulkImportWithoutTracking(tableName, records), up to await table.bulkPut
bulkImportWithoutTrackingStart(d, t, records) ==
    SuspendStart(d, Op("bulk", t, isTracking[d], records, << >>, "caller"))

RECURSIVE BulkPutTable(_, _)
BulkPutTable(tbl, records) ==
    IF records = << >> THEN tbl
    ELSE BulkPutTable(TablePut(tbl, Head(records)), Tail(records))

RECURSIVE BulkPutHooks(_, _, _, _, _)
BulkPutHooks(d, tbl, t, records, origin) ==
    IF records = << >> THEN << >>
    ELSE PutHooks(d, tbl, t, Head(records), origin, 0)
         \o BulkPutHooks(d, TablePut(tbl, Head(records)), t, Tail(records), origin)

\* the awaited table.bulkPut(records) runs, then the finally
bulkPut(d, i) ==
    LET op == ops[d][i]
        tbl == store[d][op.table]
    IN /\ op.kind = "bulk"
       /\ store' = [store EXCEPT ![d][op.table] = BulkPutTable(@, op.upserts)]
       /\ timers' = [timers EXCEPT ![d] =
                       @ \o BulkPutHooks(d, tbl, op.table, op.upserts, "bulk")]
       /\ SuspendContinue(d, i, [op EXCEPT !.upserts = << >>])
       /\ UNCHANGED <<isInitialized, hooks, outbox, logged, muts>>

\* clearTableWithoutTracking(tableName), up to await table.clear()
clearTableWithoutTrackingStart(d, t) ==
    SuspendStart(d, Op("clear", t, isTracking[d], << >>, << >>, "caller"))

RECURSIVE ClearHooks(_, _, _)
ClearHooks(d, t, ids) ==
    IF ids = << >> THEN << >>
    ELSE deletingHook(d, t, Head(ids), "clear", 0) \o ClearHooks(d, t, Tail(ids))

\* the awaited table.clear() runs (the 'deleting' hook for every key), then
\* the finally
tableClear(d, i) ==
    LET op == ops[d][i]
        tbl == store[d][op.table]
    IN /\ op.kind = "clear"
       /\ store' = [store EXCEPT ![d][op.table] = EmptyTable]
       /\ timers' = [timers EXCEPT ![d] = @ \o ClearHooks(d, op.table, SeqOfSet(DOMAIN tbl))]
       /\ SuspendContinue(d, i, op)
       /\ UNCHANGED <<isInitialized, hooks, outbox, logged, muts>>

\* a rejection that leaves the function without restoring the flag
storageErrorLeavesOff(d, i) ==
    /\ ops' = [ops EXCEPT ![d] = RemoveAt(@, i)]
    /\ UNCHANGED <<isInitialized, isTracking, hooks, store, timers, outbox, logged, muts>>

\* the awaited storage call of the call in slot i rejects: the finally runs
storageError(d, i) ==
    LET op == ops[d][i]
    IN /\ isTracking' = [isTracking EXCEPT ![d] = op.wasTracking]
       /\ ops' = [ops EXCEPT ![d] = RemoveAt(@, i)]
       /\ UNCHANGED <<isInitialized, hooks, store, timers, outbox, logged, muts>>

\* getTableByName(tableName): the table of a known name, otherwise it throws
getTableByName(tableName) == IF tableName \in Tables THEN tableName ELSE "throws"

\* a suspending operation called with an unknown table name: the flag is
\* saved and cleared, getTableByName throws inside the try before any await,
\* and the finally puts the saved value back
unknownTable(d, tableName) ==
    LET wasTracking == isTracking[d]
    IN /\ getTableByName(tableName) = "throws"
       /\ isTracking' = [isTracking EXCEPT ![d] = wasTracking]
       /\ UNCHANGED <<isInitialized, hooks, store, timers, outbox, ops, logged, muts>>

\* setTrackingEnabled(enabled)
setTrackingEnabled(d, enabled) ==
    /\ isTracking' = [isTracking EXCEPT ![d] = enabled]
    /\ UNCHANGED <<isInitialized, hooks, store, timers, outbox, ops, logged, muts>>

\* ---------------------------------------------------------- remote store
\* The account's rows: per table, id -> [rec, ver], ver being the account
\* version at which the row was last written.
NoChanges == [t \in Tables |-> [upserts |-> << >>, deletes |-> << >>]]

\* POST /sync/pull {sinceVersion}: everything after version v
ChangesSince(v) ==
    [t \in Tables |->
        [upserts |-> SeqOfSet({ remote[t][id].rec :
                        id \in { x \in DOMAIN remote[t] :
                                   remote[t][x].ver > v /\ ~remote[t][x].rec.deleted } }),
         deletes |-> SeqOfSet({ id \in DOMAIN remote[t] :
                        remote[t][id].ver > v /\ remote[t][id].rec.deleted })]]

IncomingTime(c) == IF c.operation = "delete" THEN c.timestamp ELSE c.payload.updatedAt

RemoteWinsNever(rem, c) == FALSE

\* last-write-wins: the remote row is newer than the incoming change
RemoteWins(rem, c) ==
    /\ c.recordId \in DOMAIN rem[c.table]
    /\ rem[c.table][c.recordId].rec.updatedAt > IncomingTime(c)

PushChange(rem, c, ver) ==
    IF RemoteWins(rem, c) THEN rem
    ELSE IF c.operation = "delete"
    THEN IF c.recordId \in DOMAIN rem[c.table]
         THEN [rem EXCEPT ![c.table][c.recordId] =
                 [rec |-> [@.rec EXCEPT !.deleted = TRUE, !.updatedAt = c.timestamp],
                  ver |-> ver]]
         ELSE rem
    ELSE [rem EXCEPT ![c.table] =
            [x \in (DOMAIN @) \cup {c.recordId} |->
                IF x = c.recordId THEN [rec |-> c.payload, ver |-> ver] ELSE @[x]]]

\* POST /sync/push: the changes applied in order
RECURSIVE PushAll(_, _, _)
PushAll(rem, changes, ver) ==
    IF changes = << >> THEN rem
    ELSE PushAll(PushChange(rem, Head(changes), ver), Tail(changes), ver)

RECURSIVE ConflictIds(_, _, _)
ConflictIds(rem, changes, ver) ==
    IF changes = << >> THEN {}
    ELSE (IF RemoteWins(rem, Head(changes)) THEN {Head(changes).recordId} ELSE {})
         \cup ConflictIds(PushChange(rem, Head(changes), ver), Tail(changes), ver)

\* ------------------------------------------------------------ sync engine
TableOrder == <<"items", "trips", "tripItems", "outfits", "wishlist">>

EngineOps(d) == { i \in 1..Len(ops[d]) : ops[d][i].owner = "engine" }

HistStart(d) ==
    [startVersion |-> lastSyncVersion[d], startOutbox |-> outbox[d],
     quiet |-> timers[d] = << >>, outcome |-> "running", failStage |-> "",
     pulled |-> FALSE, inFlight |-> hist[d].inFlight + 1, rejected |-> hist[d].rejected,
     again |-> hist[d].again, startStore |-> store[d], startMuts |-> Len(muts),
     conflictIds |-> {}, failed |-> hist[d].failed, dropped |-> hist[d].dropped,
     upserted |-> hist[d].upserted, deleted |-> hist[d].deleted,
     flagBefore |-> hist[d].flagBefore]

\* a sync() that starts a cycle whatever the engine is doing
syncRestart(d) ==
    /\ cycles[d] < MaxCycles
    /\ cycles' = [cycles EXCEPT ![d] = @ + 1]
    /\ engineState' = [engineState EXCEPT ![d] = "Pulling"]
    /\ hist' = [hist EXCEPT ![d] = HistStart(d)]
    /\ UNCHANGED <<lastSyncVersion, lastError, pullResp, toApply, pushReq>>

\* a sync() that sends the push request first
syncPushFirst(d) ==
    IF engineState[d] # "Idle"
    THEN /\ hist' = [hist EXCEPT ![d].rejected = TRUE]
         /\ UNCHANGED <<engineVars, cycles>>
    ELSE /\ cycles[d] < MaxCycles
         /\ cycles' = [cycles EXCEPT ![d] = @ + 1]
         /\ engineState' = [engineState EXCEPT ![d] = "Pushing"]
         /\ pushReq' = [pushReq EXCEPT ![d] = outbox[d]]
         /\ hist' = [hist EXCEPT ![d] = HistStart(d)]
         /\ UNCHANGED <<lastSyncVersion, lastError, pullResp, toApply>>

\* syncEngine.sync(): a request while a cycle runs is rejected, not queued
sync(d) ==
    IF engineState[d] # "Idle"
    THEN /\ hist' = [hist EXCEPT ![d].rejected = TRUE]
         /\ UNCHANGED <<engineVars, cycles>>
    ELSE /\ cycles[d] < MaxCycles
         /\ cycles' = [cycles EXCEPT ![d] = @ + 1]
         /\ engineState' = [engineState EXCEPT ![d] = "Pulling"]
         /\ hist' = [hist EXCEPT ![d] = HistStart(d)]
         /\ UNCHANGED <<lastSyncVersion, lastError, pullResp, toApply, pushReq>>

\* a failure handler that moves the cursor to the server's version
FailCommitsCursor(d, stage) ==
    /\ engineState' = [engineState EXCEPT ![d] = "Idle"]
    /\ lastError' = [lastError EXCEPT ![d] = stage]
    /\ lastSyncVersion' = [lastSyncVersion EXCEPT ![d] = serverVersion]
    /\ hist' = [hist EXCEPT ![d].outcome = "error", ![d].failStage = stage,
                             ![d].inFlight = @ - 1]
    /\ UNCHANGED <<pullResp, toApply, pushReq, cycles>>

\* a stage fails: the cycle is aborted, lastError recorded, sync:error emitted
Fail(d, stage) ==
    /\ engineState' = [engineState EXCEPT ![d] = "Idle"]
    /\ lastError' = [lastError EXCEPT ![d] = stage]
    /\ hist' = [hist EXCEPT ![d].outcome = "error", ![d].failStage = stage,
                             ![d].inFlight = @ - 1]
    /\ UNCHANGED <<lastSyncVersion, pullResp, toApply, pushReq, cycles>>

\* a pull that moves the cursor as soon as the response arrives
pullOkAdvancesCursor(d) ==
    /\ engineState[d] = "Pulling"
    /\ pullResp' = [pullResp EXCEPT ![d] =
                      [version |-> serverVersion, changes |-> ChangesSince(lastSyncVersion[d])]]
    /\ toApply' = [toApply EXCEPT ![d] = TableOrder]
    /\ engineState' = [engineState EXCEPT ![d] = "Applying"]
    /\ hist' = [hist EXCEPT ![d].pulled = TRUE]
    /\ lastSyncVersion' = [lastSyncVersion EXCEPT ![d] = serverVersion]
    /\ UNCHANGED <<lastError, pushReq, cycles>>

\* the pull response arrives
pullOk(d) ==
    /\ engineState[d] = "Pulling"
    /\ pullResp' = [pullResp EXCEPT ![d] =
                      [version |-> serverVersion, changes |-> ChangesSince(lastSyncVersion[d])]]
    /\ toApply' = [toApply EXCEPT ![d] = TableOrder]
    /\ engineState' = [engineState EXCEPT ![d] = "Applying"]
    /\ hist' = [hist EXCEPT ![d].pulled = TRUE]
    /\ UNCHANGED <<lastSyncVersion, lastError, pushReq, cycles>>

pullFail(d) ==
    /\ engineState[d] = "Pulling"
    /\ Fail(d, "pull")

\* the tables of the response that still carry something to apply
RECURSIVE DropEmpty(_, _)
DropEmpty(tables, changes) ==
    IF tables = << >> THEN << >>
    ELSE IF changes[Head(tables)].upserts = << >> /\ changes[Head(tables)].deletes = << >>
    THEN DropEmpty(Tail(tables), changes)
    ELSE tables

\* the cursor is advanced once every table is applied; the outbox is then
\* gathered and the push request sent
commitPull(d) ==
    /\ lastSyncVersion' = [lastSyncVersion EXCEPT ![d] = pullResp[d].version]
    /\ pushReq' = [pushReq EXCEPT ![d] = outbox[d]]
    /\ engineState' = [engineState EXCEPT ![d] = "Pushing"]
    /\ toApply' = [toApply EXCEPT ![d] = << >>]
    /\ UNCHANGED <<lastError, pullResp, cycles, hist>>

\* the apply step goes on: applyServerChanges for the next table, awaited
applyNext(d) ==
    LET rest == DropEmpty(toApply[d], pullResp[d].changes)
    IN /\ engineState[d] = "Applying"
       /\ EngineOps(d) = {}
       /\ IF rest = << >>
          THEN /\ commitPull(d)
               /\ UNCHANGED trackerVars
          ELSE /\ applyServerChangesStart(d, Head(rest),
                        pullResp[d].changes[Head(rest)].upserts,
                        pullResp[d].changes[Head(rest)].deletes, "engine")
               /\ toApply' = [toApply EXCEPT ![d] = Tail(rest)]
               /\ UNCHANGED <<engineState, lastSyncVersion, lastError, pullResp, pushReq,
                              cycles, hist>>

\* a storage call of the engine's applyServerChanges rejects
applyFail(d, i) ==
    /\ engineState[d] = "Applying"
    /\ i \in EngineOps(d)
    /\ storageError(d, i)
    /\ Fail(d, "apply")

PushedIds(d) == { pushReq[d][i].id : i \in 1..Len(pushReq[d]) }

RECURSIVE Without(_, _)
Without(entries, ids) ==
    IF entries = << >> THEN << >>
    ELSE (IF Head(entries).id \in ids THEN << >> ELSE <<Head(entries)>>)
         \o Without(Tail(entries), ids)

\* the push is accepted: the server applies the changes and bumps the
\* version; the pushed entries leave the outbox, the cursor takes the version
pushOk(d) ==
    /\ engineState[d] = "Pushing"
    /\ remote' = PushAll(remote, pushReq[d], serverVersion + 1)
    /\ serverVersion' = serverVersion + 1
    /\ outbox' = [outbox EXCEPT ![d] = Without(@, PushedIds(d))]
    /\ UNCHANGED <<isInitialized, isTracking, hooks, store, timers, ops, logged, muts>>
    /\ lastSyncVersion' = [lastSyncVersion EXCEPT ![d] = serverVersion + 1]
    /\ engineState' = [engineState EXCEPT ![d] = "ImageSyncing"]
    /\ hist' = [e \in Devices |->
                  IF e = d
                  THEN [hist[e] EXCEPT !.conflictIds =
                           ConflictIds(remote, pushReq[d], serverVersion + 1)]
                  ELSE IF hist[e].outcome = "running"
                  THEN [hist[e] EXCEPT !.quiet = FALSE] ELSE hist[e]]
    /\ UNCHANGED <<lastError, pullResp, toApply, pushReq, cycles>>

pushFail(d) ==
    /\ engineState[d] = "Pushing"
    /\ Fail(d, "push")

\* a completed cycle that leaves the recorded error in SyncMeta
imagesOkKeepsError(d) ==
    /\ engineState[d] = "ImageSyncing"
    /\ engineState' = [engineState EXCEPT ![d] = "Idle"]
    /\ hist' = [hist EXCEPT ![d].outcome = "completed", ![d].inFlight = @ - 1]
    /\ UNCHANGED <<lastSyncVersion, lastError, pullResp, toApply, pushReq, cycles>>

\* image sync done: the cycle completes, sync:completed
imagesOk(d) ==
    /\ engineState[d] = "ImageSyncing"
    /\ engineState' = [engineState EXCEPT ![d] = "Idle"]
    /\ lastError' = [lastError EXCEPT ![d] = ""]
    /\ hist' = [hist EXCEPT ![d].outcome = "completed", ![d].inFlight = @ - 1]
    /\ UNCHANGED <<lastSyncVersion, pullResp, toApply, pushReq, cycles>>

imagesFail(d) ==
    /\ engineState[d] = "ImageSyncing"
    /\ Fail(d, "images")

\* ------------------------------------------------------------ image store
\* The accounts that send requests to the image routes (session.userId).
Users == {"u1", "u2"}

\* const MAX_IMAGE_SIZE = 10 * 1024 * 1024
MAX_IMAGE_SIZE == 10485760

ALLOWED_CONTENT_TYPES == {"image/jpeg", "image/jpg", "image/png", "image/webp", "image/gif"}

\* request inputs: two small images and one above the size limit
Bodies == {"b1", "b2", "big"}

byteLength(body) == IF body = "big" THEN MAX_IMAGE_SIZE + 1 ELSE 1

\* computeHash: the SHA-256 digest of the bytes, as 64 hex characters
computeHash(body) == CASE body = "b1" -> "h1" [] body = "b2" -> "h2" [] OTHER -> "h3"

\* hashes a request may name: three digests and a string of another length
Hashes == {"h1", "h2", "h3", "short"}

HashLength(hash) == IF hash = "short" THEN 10 ELSE 64

ContentTypes == {"image/png", "text/html"}

Sizes == {0, 1, MAX_IMAGE_SIZE + 1}

\* const imageKey = `images/${hash}`
ImageKey(hash) == <<"images", hash>>

NoRequest == [kind |-> "none"]

NoRef == << >>

Response(n, kind, user, hash, status, success, error, exists, ref, url) ==
    [n |-> n, kind |-> kind, user |-> user, hash |-> hash, status |-> status,
     success |-> success, error |-> error, alreadyExists |-> exists, imageRef |-> ref,
     uploadUrl |-> url]

\* c.json({success: true, ...}): the response leaves
Respond(kind, user, hash, status, success, exists, ref, url) ==
    imageResp' = Response(imageResp.n + 1, kind, user, hash, status, success, "", exists,
                          ref, url)

\* c.json({success: false, error}, 400)
Reject(kind, user, hash, error) ==
    imageResp' = Response(imageResp.n + 1, kind, user, hash, 400, FALSE, error, FALSE,
                          NoRef, "")

R2HeadNothing(hash) == FALSE

\* R2_IMAGES.head(imageKey)
R2Head(hash) == hash \in DOMAIN blobs

R2Put(objects, hash, object) ==
    [h \in (DOMAIN objects) \cup {hash} |-> IF h = hash THEN object ELSE objects[h]]

R2Delete(objects, hash) == [h \in (DOMAIN objects) \ {hash} |-> objects[h]]

\* POST /images/presign-upload {hash, contentType, size}
presignUpload(user, hash, contentType, size) ==
    /\ imageReqs[user] = NoRequest
    /\ IF HashLength(hash) # 64
       THEN /\ Reject("presign", user, hash, "Invalid hash")
            /\ UNCHANGED imageRefs
       ELSE IF contentType \notin ALLOWED_CONTENT_TYPES
       THEN /\ Reject("presign", user, hash, "Invalid content type")
            /\ UNCHANGED imageRefs
       ELSE IF size = 0 \/ size > MAX_IMAGE_SIZE
       THEN /\ Reject("presign", user, hash, "Image too large (max 10MB)")
            /\ UNCHANGED imageRefs
       ELSE IF R2Head(hash)
       THEN /\ Respond("presign", user, hash, 200, TRUE, TRUE, ImageKey(hash), "")
            /\ imageRefs' = imageRefs \cup {<<user, hash>>}
       ELSE /\ Respond("presign", user, hash, 200, TRUE, FALSE, ImageKey(hash),
                       "/images/upload/")
            /\ UNCHANGED imageRefs
    /\ UNCHANGED <<blobs, imageReqs>>

HashMatchesAlways(body, hash) == TRUE

\* the upload handler's check of the body against the hash in the URL
HashMatches(body, hash) == computeHash(body) = hash

\* an upload handler that checks the hash alone, neither type nor size
uploadStartUnchecked(user, hash, contentType, body) ==
    /\ imageReqs[user] = NoRequest
    /\ IF HashLength(hash) # 64
       THEN /\ Reject("upload", user, hash, "Invalid hash")
            /\ UNCHANGED <<imageRefs, imageReqs>>
       ELSE IF ~HashMatches(body, hash)
       THEN /\ Reject("upload", user, hash, "Hash mismatch")
            /\ UNCHANGED <<imageRefs, imageReqs>>
       ELSE IF R2Head(hash)
       THEN /\ Respond("upload", user, hash, 200, TRUE, FALSE, ImageKey(hash), "")
            /\ imageRefs' = imageRefs \cup {<<user, hash>>}
            /\ UNCHANGED imageReqs
       ELSE /\ imageReqs' = [imageReqs EXCEPT ![user] =
                     [kind |-> "upload", hash |-> hash, body |-> body,
                      contentType |-> contentType]]
            /\ UNCHANGED <<imageRefs, imageResp>>
    /\ UNCHANGED blobs

\* PUT /images/upload/:hash, up to the awaited R2_IMAGES.put
uploadStart(user, hash, contentType, body) ==
    /\ imageReqs[user] = NoRequest
    /\ IF HashLength(hash) # 64
       THEN /\ Reject("upload", user, hash, "Invalid hash")
            /\ UNCHANGED <<imageRefs, imageReqs>>
       ELSE IF contentType \notin ALLOWED_CONTENT_TYPES
       THEN /\ Reject("upload", user, hash, "Invalid content type")
            /\ UNCHANGED <<imageRefs, imageReqs>>
       ELSE IF byteLength(body) > MAX_IMAGE_SIZE
       THEN /\ Reject("upload", user, hash, "Image too large")
            /\ UNCHANGED <<imageRefs, imageReqs>>
       ELSE IF ~HashMatches(body, hash)
       THEN /\ Reject("upload", user, hash, "Hash mismatch")
            /\ UNCHANGED <<imageRefs, imageReqs>>
       ELSE IF R2Head(hash)
       THEN /\ Respond("upload", user, hash, 200, TRUE, FALSE, ImageKey(hash), "")
            /\ imageRefs' = imageRefs \cup {<<user, hash>>}
            /\ UNCHANGED imageReqs
       ELSE /\ imageReqs' = [imageReqs EXCEPT ![user] =
                     [kind |-> "upload", hash |-> hash, body |-> body,
                      contentType |-> contentType]]
            /\ UNCHANGED <<imageRefs, imageResp>>
    /\ UNCHANGED blobs

\* await R2_IMAGES.put(imageKey, body, {customMetadata: {uploadedBy, ...}})
uploadPut(user) ==
    LET req == imageReqs[user]
    IN /\ req.kind = "upload"
       /\ blobs' = R2Put(blobs, req.hash,
                         [bytes |-> req.body, contentType |-> req.contentType,
                          uploadedBy |-> user])
       /\ Respond("upload", user, req.hash, 200, TRUE, FALSE, ImageKey(req.hash), "")
       /\ imageRefs' = imageRefs \cup {<<user, req.hash>>}
       /\ imageReqs' = [imageReqs EXCEPT ![user] = NoRequest]

\* DELETE /images/:hash, up to the awaited R2_IMAGES.delete
deleteStart(user, hash) ==
    /\ imageReqs[user] = NoRequest
    /\ IF HashLength(hash) # 64
       THEN /\ Reject("delete", user, hash, "Invalid hash")
            /\ UNCHANGED <<imageRefs, imageReqs>>
       ELSE IF ~R2Head(hash)
       THEN /\ Respond("delete", user, hash, 200, TRUE, FALSE, NoRef, "")
            /\ imageRefs' = imageRefs \ {<<user, hash>>}
            /\ UNCHANGED imageReqs
       ELSE IF blobs[hash].uploadedBy # user
       THEN /\ Respond("delete", user, hash, 200, TRUE, FALSE, NoRef, "")
            /\ imageRefs' = imageRefs \ {<<user, hash>>}
            /\ UNCHANGED imageReqs
       ELSE /\ imageReqs' = [imageReqs EXCEPT ![user] = [kind |-> "delete", hash |-> hash]]
            /\ UNCHANGED <<imageRefs, imageResp>>
    /\ UNCHANGED blobs

\* await R2_IMAGES.delete(imageKey)
deleteDone(user) ==
    LET req == imageReqs[user]
    IN /\ req.kind = "delete"
       /\ blobs' = R2Delete(blobs, req.hash)
       /\ Respond("delete", user, req.hash, 200, TRUE, FALSE, NoRef, "")
       /\ imageRefs' = imageRefs \ {<<user, req.hash>>}
       /\ imageReqs' = [imageReqs EXCEPT ![user] = NoRequest]

InitImages ==
    /\ blobs = << >>
    /\ imageReqs = [u \in Users |-> NoRequest]
    /\ imageResp = Response(0, "none", "", "", 0, FALSE, "", FALSE, NoRef, "")
    /\ imageRefs = {}

\* ------------------------------------------------------------ auth client
\* export const SYNC_API_URL: the build has the sync API configured
SYNC_API_URL == "https://api"

getApiUrl == SYNC_API_URL

\* the session token the server issues to a device on sign-in
Token(d) == <<"token", d>>

\* getSyncMeta() when no SyncMeta is stored
NoMeta == [userId |-> "", sessionToken |-> << >>, syncEnabled |-> FALSE]

NoSession == [userId |-> "", sessionToken |-> << >>]

SessionOf(m) ==
    IF m.userId = "" \/ m.sessionToken = << >>
    THEN NoSession
    ELSE [userId |-> m.userId, sessionToken |-> m.sessionToken]

getCurrentSession(d) == SessionOf(meta[d])

isAuthenticated(d) == getCurrentSession(d) # NoSession

NoAuthOp == [kind |-> "none", stage |-> "done"]

AuthOp(kind, stage, d, logout, status, result) ==
    [kind |-> kind, stage |-> stage, token |-> getCurrentSession(d).sessionToken,
     startOutbox |-> Len(outbox[d]), startVersion |-> lastSyncVersion[d],
     logout |-> logout, status |-> status, result |-> result]

\* clearSyncData(): SyncMeta is destroyed together with all outbox entries
clearSyncData(d) ==
    /\ meta' = [meta EXCEPT ![d] = NoMeta]
    /\ lastSyncVersion' = [lastSyncVersion EXCEPT ![d] = 0]
    /\ lastError' = [lastError EXCEPT ![d] = ""]
    /\ outbox' = [outbox EXCEPT ![d] = << >>]

\* what no function of the auth client writes
authFrame == <<isInitialized, isTracking, hooks, store, timers, ops, logged, muts, calls,
               engineState, pullResp, toApply, pushReq, cycles, remote, serverVersion, hist,
               imageVars, storageVars, demoVars>>

syncMetaData == <<outbox, lastSyncVersion, lastError>>

\* verifyMagicLink(token), the server accepting the token: the session is
\* stored with updateSyncMeta
verifyMagicLink(d) ==
    /\ authOp[d].stage = "done"
    /\ getApiUrl # ""
    /\ sessions' = sessions \cup {Token(d)}
    /\ meta' = [meta EXCEPT ![d] = [userId |-> "user", sessionToken |-> Token(d),
                                    syncEnabled |-> TRUE]]
    /\ authOp' = [authOp EXCEPT ![d] = AuthOp("verify", "done", d, "", 200, TRUE)]
    /\ UNCHANGED <<syncMetaData, authFrame>>

\* the server ends a device's session (expiry)
expireSession(d) ==
    /\ Token(d) \in sessions
    /\ sessions' = sessions \ {Token(d)}
    /\ UNCHANGED <<meta, authOp, syncMetaData, authFrame>>

\* signOut(), up to the awaited fetch of /auth/logout or, without a session,
\* up to the awaited clearSyncData
signOutStart(d) ==
    /\ authOp[d].stage = "done"
    /\ authOp' = [authOp EXCEPT ![d] =
          IF getApiUrl # "" /\ getCurrentSession(d) # NoSession
          THEN AuthOp("signOut", "fetch", d, "", 0, FALSE)
          ELSE AuthOp("signOut", "clear", d, "skipped", 0, FALSE)]
    /\ UNCHANGED <<meta, sessions, syncMetaData, authFrame>>

signOutFetchSkipsClear(d, ok) ==
    /\ authOp[d].kind = "signOut" /\ authOp[d].stage = "fetch"
    /\ sessions' = IF ok THEN sessions \ {authOp[d].token} ELSE sessions
    /\ authOp' = [authOp EXCEPT ![d].stage = IF ok THEN "clear" ELSE "done",
                                ![d].logout = IF ok THEN "ok" ELSE "failed"]
    /\ UNCHANGED <<meta, syncMetaData, authFrame>>

\* the logout request is answered (the server drops the session), or fetch
\* throws and the error is caught
signOutFetch(d, ok) ==
    /\ authOp[d].kind = "signOut" /\ authOp[d].stage = "fetch"
    /\ sessions' = IF ok THEN sessions \ {authOp[d].token} ELSE sessions
    /\ authOp' = [authOp EXCEPT ![d].stage = "clear",
                                ![d].logout = IF ok THEN "ok" ELSE "failed"]
    /\ UNCHANGED <<meta, syncMetaData, authFrame>>

\* await clearSyncData(), the last statement of signOut
signOutClear(d) ==
    /\ authOp[d].kind = "signOut" /\ authOp[d].stage = "clear"
    /\ clearSyncData(d)
    /\ authOp' = [authOp EXCEPT ![d].stage = "done"]
    /\ UNCHANGED <<sessions, authFrame>>

\* validateSession(), up to the awaited fetch of /auth/validate
validateStart(d) ==
    /\ authOp[d].stage = "done"
    /\ authOp' = [authOp EXCEPT ![d] =
          IF getApiUrl = "" \/ getCurrentSession(d) = NoSession
          THEN AuthOp("validate", "done", d, "", 0, FALSE)
          ELSE AuthOp("validate", "fetch", d, "", 0, FALSE)]
    /\ UNCHANGED <<meta, sessions, syncMetaData, authFrame>>

\* GET /auth/validate: 200 if the session is valid, 401 otherwise
ValidateStatus(token) == IF token \in sessions THEN 200 ELSE 401

\* a validation that clears the session on every answer that is not OK
validateFetchClearsAlways(d, outcome) ==
    /\ authOp[d].kind = "validate" /\ authOp[d].stage = "fetch"
    /\ LET status == CASE outcome = "answer" -> ValidateStatus(authOp[d].token)
                       [] outcome = "unavailable" -> 500
                       [] OTHER -> 0
       IN authOp' = [authOp EXCEPT ![d].status = status,
                                   ![d].result = (status = 200),
                                   ![d].stage = IF status \in {200, 0} THEN "done"
                                                ELSE "clear"]
    /\ UNCHANGED <<meta, sessions, syncMetaData, authFrame>>

\* the response arrives (the server's answer, or a 500), or fetch throws
validateFetch(d, outcome) ==
    /\ authOp[d].kind = "validate" /\ authOp[d].stage = "fetch"
    /\ LET status == CASE outcome = "answer" -> ValidateStatus(authOp[d].token)
                       [] outcome = "unavailable" -> 500
                       [] OTHER -> 0
       IN authOp' = [authOp EXCEPT ![d].status = status,
                                   ![d].result = (status = 200),
                                   ![d].stage = IF status = 401 THEN "clear" ELSE "done"]
    /\ UNCHANGED <<meta, sessions, syncMetaData, authFrame>>

\* if (response.status === 401) await clearSyncData(); return false
validateClear(d) ==
    /\ authOp[d].kind = "validate" /\ authOp[d].stage = "clear"
    /\ clearSyncData(d)
    /\ authOp' = [authOp EXCEPT ![d].stage = "done"]
    /\ UNCHANGED <<sessions, authFrame>>

InitAuth ==
    /\ meta = [d \in Devices |-> [userId |-> "user", sessionToken |-> Token(d),
                                  syncEnabled |-> TRUE]]
    /\ sessions = { Token(d) : d \in Devices }
    /\ authOp = [d \in Devices |-> NoAuthOp]

\* --------------------------------------------------- remote data access
\* The R2 objects of one account: <username>/metadata.json, the legacy
\* <username>/data.json and one <username>/<table>.json per table.
TableNames == {"items", "trips", "tripItems", "outfits", "wishlist"}

\* the version a legacy data.json carries
LegacyVersion == 2

NoBucket == << >>

BucketPut(b, key, object) ==
    [k \in (DOMAIN b) \cup {key} |-> IF k = key THEN object ELSE b[k]]

\* loadMetadata: {version: 0} when metadata.json does not exist
loadMetadata(b) ==
    IF "metadata" \notin DOMAIN b THEN [version |-> 0] ELSE b["metadata"]

\* saveMetadata
saveMetadata(b, metadata) == BucketPut(b, "metadata", [version |-> metadata.version])

\* saveTableData
saveTableData(b, tableName, data) == BucketPut(b, tableName, data)

\* the tables a legacy data.json carries
LegacyTables ==
    [t \in TableNames |-> IF t \in {"items", "trips"} THEN <<Rec("r1", 0, FALSE)>>
                          ELSE << >>]

NoUserData == [t \in TableNames |-> << >>]

\* loadTableData: [] when the table's file does not exist
loadTableData(b, tableName) ==
    IF tableName \notin DOMAIN b THEN << >> ELSE b[tableName].data

\* loadUserData: the split files when items.json exists, else the legacy
\* data.json, else five empty tables
loadUserData(b) ==
    IF "items" \in DOMAIN b THEN [t \in TableNames |-> loadTableData(b, t)]
    ELSE IF "data" \in DOMAIN b THEN b["data"].tables
    ELSE NoUserData

\* the sync requests the worker may be serving at once
Requests == {"q1", "q2"}

IdleRequest == [stage |-> "idle"]

\* a sync request arrives: the route migrates the account if needed, then
\* serves the push
requestStart(q) ==
    /\ storageOps[q].stage = "idle"
    /\ storageOps' = [storageOps EXCEPT ![q] = [stage |-> "checkNew"]]
    /\ pushed' = [pushed EXCEPT !.started = @ + 1]
    /\ UNCHANGED bucket

\* migrateToSplitFormat: const newFormatExists = await bucket.get(items.json)
migrateCheckNew(q) ==
    /\ storageOps[q].stage = "checkNew"
    /\ storageOps' = [storageOps EXCEPT ![q] =
          IF "items" \in DOMAIN bucket
          THEN [stage |-> "push", migrated |-> FALSE]
          ELSE [stage |-> "checkOld"]]
    /\ UNCHANGED <<bucket, pushed>>

\* const oldDataObject = await bucket.get(data.json); userData = its JSON
migrateCheckOld(q) ==
    /\ storageOps[q].stage = "checkOld"
    /\ storageOps' = [storageOps EXCEPT ![q] =
          IF "data" \notin DOMAIN bucket
          THEN [stage |-> "push", migrated |-> FALSE]
          ELSE [stage |-> "saveTables", userData |-> bucket["data"],
                pending |-> TableNames]]
    /\ UNCHANGED <<bucket, pushed>>

\* one saveTableData of the Promise.all resolves
migrateSaveTable(q, tableName) ==
    /\ storageOps[q].stage = "saveTables"
    /\ tableName \in storageOps[q].pending
    /\ bucket' = saveTableData(bucket, tableName,
                               [writtenAt |-> storageOps[q].userData.version,
                                data |-> storageOps[q].userData.tables[tableName]])
    /\ storageOps' = [storageOps EXCEPT ![q] =
          IF @.pending = {tableName}
          THEN [stage |-> "saveMeta", userData |-> @.userData]
          ELSE [@ EXCEPT !.pending = @ \ {tableName}]]
    /\ UNCHANGED pushed

\* await saveMetadata(bucket, username, {version: userData.version, ...});
\* return true
migrateSaveMetadata(q) ==
    /\ storageOps[q].stage = "saveMeta"
    /\ bucket' = saveMetadata(bucket, [version |-> storageOps[q].userData.version])
    /\ storageOps' = [storageOps EXCEPT ![q] = [stage |-> "push", migrated |-> TRUE]]
    /\ UNCHANGED pushed

\* an awaited bucket.put of the migration rejects: the request fails
migrateError(q) ==
    /\ storageOps[q].stage \in {"saveTables", "saveMeta"}
    /\ storageOps' = [storageOps EXCEPT ![q] = IdleRequest]
    /\ UNCHANGED <<bucket, pushed>>

\* the push is accepted: the version read by loadMetadata, plus one, is
\* saved with the changed table and returned
pushAccept(q) ==
    /\ storageOps[q].stage = "push"
    /\ LET version == loadMetadata(bucket).version + 1
       IN /\ bucket' = saveMetadata(
                           saveTableData(bucket, "items",
                                         [writtenAt |-> version,
                                          data |-> loadUserData(bucket).items]),
                           [version |-> version])
          /\ pushed' = [pushed EXCEPT !.accepted = Append(@, version)]
    /\ storageOps' = [storageOps EXCEPT ![q] = IdleRequest]

InitStorage ==
    /\ bucket = NoBucket
    /\ storageOps = [q \in Requests |-> IdleRequest]
    /\ pushed = [started |-> 0, initial |-> 0, accepted |-> << >>]

\* -------------------------------------------------------------- demo mode
\* the demo seeds a device may fetch (/demo-data-<type>.json); NoDemoData is
\* loadDemoData returning null
MaxDemoCalls == 2

NoDemoData == [t \in Tables |-> << >>]

DemoFiles ==
    { [NoDemoData EXCEPT !["items"] = <<Rec("r1", 0, FALSE)>>],
      [NoDemoData EXCEPT !["items"] = <<Rec("r1", 0, FALSE), Rec("r2", 0, FALSE)>>,
                         !["trips"] = <<Rec("r1", 0, FALSE)>>] }

NoBackup == << >>

\* db.<table>.toArray() of the five tables
ToArrays(tables) ==
    [t \in Tables |-> SeqOfSet({ tables[t][id] : id \in DOMAIN tables[t] })]

\* backupUserData: written only when items, trips, outfits or wishlist hold
\* something; an older backup stays otherwise
backupUserData(d) ==
    IF \E t \in {"items", "trips", "outfits", "wishlist"} : DOMAIN store[d][t] # {}
    THEN <<ToArrays(store[d])>>
    ELSE demo[d].backup

\* await db.items.clear(); ... await db.wishlist.clear(): plain table calls,
\* the 'deleting' hook runs for every key
RECURSIVE ClearAllHooks(_, _, _)
ClearAllHooks(d, tables, contents) ==
    IF tables = << >> THEN << >>
    ELSE ClearHooks(d, Head(tables), SeqOfSet(DOMAIN contents[Head(tables)]))
         \o ClearAllHooks(d, Tail(tables), contents)

\* if (data.items?.length) await db.items.bulkPut(data.items); ... on the
\* emptied tables: plain table calls, the 'creating' hook runs for every record
RECURSIVE BulkPutAllHooks(_, _, _)
BulkPutAllHooks(d, tables, data) ==
    IF tables = << >> THEN << >>
    ELSE BulkPutHooks(d, EmptyTable, Head(tables), data[Head(tables)], "demo")
         \o BulkPutAllHooks(d, Tail(tables), data)

BulkPutAll(data) == [t \in Tables |-> BulkPutTable(EmptyTable, data[t])]

\* enterDemoMode(type): backup, clear, load and import the seed, set the
\* flag; without a seed it throws after the clear and returns false
enterDemoMode(d, data) ==
    /\ demo' = [demo EXCEPT ![d].backup = backupUserData(d),
                            ![d].active = IF data = NoDemoData THEN @ ELSE TRUE,
                            ![d].uses = @ + 1]
    /\ store' = [store EXCEPT ![d] = BulkPutAll(data)]
    /\ timers' = [timers EXCEPT ![d] =
                     @ \o ClearAllHooks(d, TableOrder, store[d])
                       \o BulkPutAllHooks(d, TableOrder, data)]
    /\ UNCHANGED <<isInitialized, isTracking, hooks, outbox, ops, logged, muts>>

\* restoreUserData: nothing without a backup; else clear, bulkPut the backed
\* up arrays, remove the backup
restoreUserData(d) ==
    IF demo[d].backup = NoBackup THEN NoDemoData ELSE demo[d].backup[1]

\* exitDemoMode: clear the demo data, restore the user's data, clear the flag
exitDemoMode(d) ==
    /\ demo' = [demo EXCEPT ![d].backup = NoBackup, ![d].active = FALSE,
                            ![d].uses = @ + 1]
    /\ store' = [store EXCEPT ![d] = BulkPutAll(restoreUserData(d))]
    /\ timers' = [timers EXCEPT ![d] =
                     @ \o ClearAllHooks(d, TableOrder, store[d])
                       \o BulkPutAllHooks(d, TableOrder, restoreUserData(d))]
    /\ UNCHANGED <<isInitialized, isTracking, hooks, outbox, ops, logged, muts>>

InitDemo == demo = [d \in Devices |-> [active |-> FALSE, backup |-> NoBackup, uses |-> 0]]

\* -------------------------------------------------------------- event bus
\* the handler functions useSync's mount effect may subscribe, a new one each
\* time the effect runs
Handlers == {"f1", "f2"}

MaxEvents == 4

NotYet == 0 - 1

\* a subscribe that hands the new handler the events published so far
subscribeReplays(h) ==
    /\ bus.subAt[h] = NotYet
    /\ bus' = [bus EXCEPT !.handlers = @ \cup {h}, !.subAt[h] = Len(bus.events),
                          !.received[h] = [i \in 1..Len(bus.events) |-> i]]

\* const unsubscribe = syncEngine.subscribe(handler)
subscribe(h) ==
    /\ bus.subAt[h] = NotYet
    /\ bus' = [bus EXCEPT !.handlers = @ \cup {h}, !.subAt[h] = Len(bus.events)]

\* unsubscribe(), the cleanup of the mount effect
unsubscribe(h) ==
    /\ h \in bus.handlers
    /\ bus' = [bus EXCEPT !.handlers = @ \ {h}, !.unsubAt[h] = Len(bus.events)]

\* the handler the useSync hook subscribes in its mount effect, and the
\* device the hook runs on
HookHandler == "f1"

HookDevice == "A"

\* useSync's state: const initialState
initialState ==
    [isAuthenticated |-> FALSE, syncEnabled |-> FALSE, isSyncing |-> FALSE, lastError |-> ""]

\* refresh(): the state is reloaded from the session and SyncMeta;
\* `meta.lastError || null` (null is "")
refresh(ui, m, metaLastError) ==
    [ui EXCEPT !.isAuthenticated = SessionOf(m) # NoSession,
               !.syncEnabled = m.syncEnabled,
               !.lastError = metaLastError]

\* the handler useSync subscribes: switch (event.type). For sync:error the
\* error is event.data.error; for sync:completed, whose handler ends with
\* refresh(), it is the lastError SyncMeta holds after the cycle.
onSyncEvent(ui, type, error, m) ==
    CASE type = "sync:started" -> [ui EXCEPT !.isSyncing = TRUE]
      [] type = "sync:completed" ->
            refresh([ui EXCEPT !.isSyncing = FALSE, !.lastError = ""], m, error)
      [] type = "sync:error" -> [ui EXCEPT !.isSyncing = FALSE, !.lastError = error]
      [] type = "auth:required" -> [ui EXCEPT !.isAuthenticated = FALSE,
                                              !.syncEnabled = FALSE]
      [] OTHER -> ui

\* the bus after the engine has published an event of the type: every
\* handler subscribed at that moment is called with it, nothing is kept
Published(b, type, error) ==
    [b EXCEPT !.events = Append(@, type),
              !.received = [h \in Handlers |->
                              IF h \in b.handlers THEN Append(@[h], Len(b.events) + 1)
                              ELSE @[h]],
              !.ui = IF HookHandler \in b.handlers
                     THEN onSyncEvent(@, type, error, meta[HookDevice])
                     ELSE @]

\* a trigger that starts the cycle without a look at the session
syncTriggerUnchecked(d) ==
    /\ engineState[d] = "Idle"
    /\ sync(d)
    /\ bus' = Published(bus, "sync:started", lastError[d])

\* A sync() request of the timer, of the change debounce or of syncNow on an
\* idle engine: with a session the server accepts the cycle starts
\* (sync:started); otherwise the request short-circuits to auth:required and
\* nothing else changes.
syncTrigger(d) ==
    /\ engineState[d] = "Idle"
    /\ IF isAuthenticated(d) /\ ValidateStatus(Token(d)) = 200
       THEN /\ sync(d)
            /\ bus' = Published(bus, "sync:started", lastError[d])
       ELSE /\ bus' = Published([bus EXCEPT !.authRequired[d] = TRUE], "auth:required",
                                lastError[d])
            /\ UNCHANGED <<engineVars, cycles, hist>>

\* the pull request is answered 401: the cycle is aborted, auth:required
pullUnauthorized(d) ==
    /\ engineState[d] = "Pulling"
    /\ ValidateStatus(Token(d)) = 401
    /\ Fail(d, "auth")
    /\ bus' = Published([bus EXCEPT !.authRequired[d] = TRUE], "auth:required",
                        lastError'[d])

InitBus ==
    bus = [handlers |-> {}, events |-> << >>,
           received |-> [h \in Handlers |-> << >>],
           subAt |-> [h \in Handlers |-> NotYet],
           unsubAt |-> [h \in Handlers |-> NotYet],
           authRequired |-> [d \in Devices |-> FALSE],
           ui |-> initialState,
           autoSync |-> [d \in Devices |-> FALSE],
           pc |-> [enableSync |-> "idle", disableSync |-> "idle", logout |-> "idle"]]

InitExtra == InitImages /\ InitAuth /\ InitStorage /\ InitDemo /\ InitBus

\* --------------------------------------------------------- initial states
NoHist ==
    [startVersion |-> 0, startOutbox |-> << >>, quiet |-> FALSE, outcome |-> "none",
     failStage |-> "", pulled |-> FALSE, inFlight |-> 0, rejected |-> FALSE,
     again |-> FALSE, startStore |-> [t \in Tables |-> EmptyTable], startMuts |-> 0,
     conflictIds |-> {}, failed |-> {}, dropped |-> {},
     upserted |-> 0, deleted |-> 0, flagBefore |-> TRUE]

InitEngine ==
    /\ calls = 0
    /\ engineState = [d \in Devices |-> "Idle"]
    /\ lastSyncVersion = [d \in Devices |-> 0]
    /\ lastError = [d \in Devices |-> ""]
    /\ pullResp = [d \in Devices |-> [version |-> 0, changes |-> NoChanges]]
    /\ toApply = [d \in Devices |-> << >>]
    /\ pushReq = [d \in Devices |-> << >>]
    /\ cycles = [d \in Devices |-> 0]
    /\ remote = [t \in Tables |-> EmptyTable]
    /\ serverVersion = 0
    /\ hist = [d \in Devices |-> NoHist]

\* ------------------------------------------------- one device's engine
\* Device A has mounted useSync (the hooks are registered). Its user edits
\* one record of the items table; another device of the account edits the
\* same record and has its push accepted by the server (RemoteWrite).
SyncTable == "items"
SyncId == "r1"
EngineDevice == "A"

InitStores ==
    /\ isInitialized = [d \in Devices |-> TRUE]
    /\ isTracking = [d \in Devices |-> TRUE]
    /\ hooks = [d \in Devices |-> 1]
    /\ store = [d \in Devices |-> [t \in Tables |-> EmptyTable]]
    /\ timers = [d \in Devices |-> << >>]
    /\ outbox = [d \in Devices |-> << >>]
    /\ ops = [d \in Devices |-> << >>]
    /\ logged = [d \in Devices |-> 0]
    /\ muts = << >>

Init == InitStores /\ InitEngine /\ InitExtra

Disturb(d) == hist' = [hist EXCEPT ![d].quiet = FALSE]

LocalEdit(d) ==
    /\ calls < MaxCalls
    /\ calls' = calls + 1
    /\ \/ UserCreate(d, SyncTable, SyncId)
       \/ \E m \in UserMods : UserUpdate(d, SyncTable, SyncId, m)
       \/ UserDelete(d, SyncTable, SyncId)
    /\ Disturb(d)
    /\ UNCHANGED <<engineVars, cycles, serverVars, extraVars>>

LogTimer(d) ==
    /\ TimerFire(d)
    /\ UNCHANGED <<calls, engineVars, cycles, serverVars, hist, extraVars>>

\* syncNow, the auto-sync timer and the change-triggered debounce all call sync()
SyncRequest(d) ==
    /\ \E trigger \in {"manual", "timer", "change"} : sync(d)
    /\ UNCHANGED <<trackerVars, calls, serverVars, extraVars>>

PullStage(d) ==
    /\ pullOk(d) \/ pullFail(d)
    /\ UNCHANGED <<trackerVars, calls, serverVars, extraVars>>

ApplyStep(d) ==
    \E i \in EngineOps(d) :
        /\ applyPut(d, i) \/ applyGet(d, i) \/ applyUpdate(d, i)
        /\ UNCHANGED <<calls, engineVars, cycles, hist, serverVars, extraVars>>

ApplyStage(d) ==
    /\ \/ applyNext(d)
       \/ \E i \in EngineOps(d) : applyFail(d, i)
    /\ UNCHANGED <<calls, serverVars, extraVars>>

PushStage(d) ==
    \/ /\ pushOk(d)
       /\ UNCHANGED <<calls, extraVars>>
    \/ /\ pushFail(d)
       /\ UNCHANGED <<trackerVars, calls, serverVars, extraVars>>

ImageStage(d) ==
    /\ imagesOk(d) \/ imagesFail(d)
    /\ UNCHANGED <<trackerVars, calls, serverVars, extraVars>>

\* Another device of the account edits the record (a create or an update
\* carrying the whole record, or a delete) and its push is accepted.
RemoteChange(operation, del) ==
    [id |-> 0, table |-> SyncTable, recordId |-> SyncId, operation |-> operation,
     timestamp |-> NextStamp,
     payload |-> IF operation = "delete" THEN NoPayload ELSE Rec(SyncId, NextStamp, del),
     origin |-> "user", mut |-> NextStamp]

RemoteWrite(d) ==
    /\ calls < MaxCalls
    /\ calls' = calls + 1
    /\ \E operation \in {"create", "delete"}, del \in BOOLEAN :
          remote' = PushAll(remote, <<RemoteChange(operation, del)>>, serverVersion + 1)
    /\ serverVersion' = serverVersion + 1
    /\ muts' = Append(muts, [dev |-> "remote", operation |-> "push", table |-> SyncTable,
                             recordId |-> SyncId, tracking |-> TRUE, hooked |-> TRUE])
    /\ hist' = [hist EXCEPT ![d].quiet = FALSE]
    /\ UNCHANGED <<isInitialized, isTracking, hooks, store, timers, outbox, ops, logged,
                   engineVars, cycles, extraVars>>

Next ==
    \/ LocalEdit(EngineDevice)
    \/ LogTimer(EngineDevice)
    \/ SyncRequest(EngineDevice)
    \/ PullStage(EngineDevice)
    \/ ApplyStep(EngineDevice)
    \/ ApplyStage(EngineDevice)
    \/ PushStage(EngineDevice)
    \/ ImageStage(EngineDevice)
    \/ RemoteWrite(EngineDevice)

Spec == Init /\ [][Next]_vars

\* ------------------------------------------- the sync system: two devices
\* Both devices run whole cycles against the same account; no stage fails
\* and no request arrives while a cycle runs.
StartCycle(d) ==
    /\ engineState[d] = "Idle"
    /\ sync(d)
    /\ UNCHANGED <<trackerVars, calls, serverVars, extraVars>>

PullDone(d) ==
    /\ pullOk(d)
    /\ UNCHANGED <<trackerVars, calls, serverVars, extraVars>>

ApplyDone(d) ==
    /\ applyNext(d)
    /\ UNCHANGED <<calls, serverVars, extraVars>>

PushDone(d) ==
    /\ pushOk(d)
    /\ UNCHANGED <<calls, extraVars>>

ImagesDone(d) ==
    /\ imagesOk(d)
    /\ UNCHANGED <<trackerVars, calls, serverVars, extraVars>>

NextDevices ==
    \E d \in Devices :
        \/ LocalEdit(d)
        \/ LogTimer(d)
        \/ StartCycle(d)
        \/ PullDone(d)
        \/ ApplyStep(d)
        \/ ApplyDone(d)
        \/ PushDone(d)
        \/ ImagesDone(d)

SpecDevices == Init /\ [][NextDevices]_vars

\* ------------------------------------------------------ the change tracker
\* One device, before useSync is mounted: the user's mutations on the five
\* tables, the deferred logChange callbacks, and the tracking-suspending
\* operations, which any caller may start while another one is awaiting.
TrackerDevice == "A"

\* the table the suspending operations are called on
OpTables == {"items"}

\* the records a pull response or an import may carry
InputRecords == { Rec(id, 0, FALSE) : id \in Ids }

InitTracker ==
    /\ isInitialized = [d \in Devices |-> FALSE]
    /\ isTracking = [d \in Devices |-> TRUE]
    /\ hooks = [d \in Devices |-> 0]
    /\ store = [d \in Devices |-> [t \in Tables |->
                  IF t = "items" /\ d = TrackerDevice
                  THEN TablePut(EmptyTable, Rec("r1", 0, FALSE))
                  ELSE EmptyTable]]
    /\ timers = [d \in Devices |-> << >>]
    /\ outbox = [d \in Devices |-> << >>]
    /\ ops = [d \in Devices |-> << >>]
    /\ logged = [d \in Devices |-> 0]
    /\ muts = << >>
    /\ InitEngine
    /\ InitExtra

OneCall ==
    /\ calls < MaxCalls
    /\ calls' = calls + 1
    /\ UNCHANGED <<engineVars, cycles, serverVars, hist, extraVars>>

NoCall == UNCHANGED <<calls, engineVars, cycles, serverVars, hist, extraVars>>

\* the useSync mount effect: useEffect(() => { initializeChangeTracking(); ... })
Mount(d) ==
    /\ initializeChangeTracking(d)
    /\ hist' = [hist EXCEPT ![d].again = @ \/ isInitialized[d]]
    /\ UNCHANGED <<calls, engineVars, cycles, serverVars, extraVars>>

UserMutation(d) ==
    /\ \E t \in Tables, id \in Ids :
          \/ UserCreate(d, t, id)
          \/ \E m \in UserMods : UserUpdate(d, t, id, m)
          \/ UserDelete(d, t, id)
    /\ OneCall

Deferred(d) ==
    /\ TimerFire(d)
    /\ NoCall

SuspendingCall(d) ==
    /\ \E t \in OpTables :
          \/ \E u \in UpToOne(InputRecords), del \in UpToOne(Ids) :
                applyServerChangesStart(d, t, u, del, "caller")
          \/ \E r \in UpToOne(InputRecords) : bulkImportWithoutTrackingStart(d, t, r)
          \/ clearTableWithoutTrackingStart(d, t)
    /\ OneCall

SuspendingStep(d) ==
    /\ \E i \in 1..Len(ops[d]) :
          \/ applyPut(d, i)
          \/ applyGet(d, i)
          \/ applyUpdate(d, i)
          \/ bulkPut(d, i)
          \/ tableClear(d, i)
          \/ storageError(d, i)
    /\ NoCall

NextTracker ==
    \/ Mount(TrackerDevice)
    \/ UserMutation(TrackerDevice)
    \/ Deferred(TrackerDevice)
    \/ SuspendingCall(TrackerDevice)
    \/ SuspendingStep(TrackerDevice)

SpecTracker == InitTracker /\ [][NextTracker]_vars

\* ------------------------------------------- applying one response again
\* Two devices hold the same local table and receive the same pull response;
\* each applies it with applyServerChanges, one call after the other, as often
\* as it likes.
LocalRecords(id) == { << >>, <<Rec(id, 0, FALSE)>>, <<Rec(id, 0, TRUE)>> }

LocalTables ==
    { BulkPutTable(EmptyTable, a \o b) : a \in LocalRecords("r1"), b \in LocalRecords("r2") }

ResponseRecords == { Rec(id, t, FALSE) : id \in Ids, t \in {1, 2} }

ResponseUpserts ==
    UpToOne(ResponseRecords) \cup { <<x, y>> : x \in ResponseRecords, y \in ResponseRecords }

ResponseDeletes == UpToOne(Ids) \cup { <<x, y>> : x \in Ids, y \in Ids }

InitApply ==
    /\ isInitialized = [d \in Devices |-> TRUE]
    /\ isTracking = [d \in Devices |-> TRUE]
    /\ hooks = [d \in Devices |-> 1]
    /\ \E local \in LocalTables :
          store = [d \in Devices |-> [t \in Tables |->
                     IF t = SyncTable THEN local ELSE EmptyTable]]
    /\ timers = [d \in Devices |-> << >>]
    /\ outbox = [d \in Devices |-> << >>]
    /\ ops = [d \in Devices |-> << >>]
    /\ logged = [d \in Devices |-> 0]
    /\ muts = << >>
    /\ calls = 0
    /\ engineState = [d \in Devices |-> "Idle"]
    /\ lastSyncVersion = [d \in Devices |-> 0]
    /\ lastError = [d \in Devices |-> ""]
    /\ \E u \in ResponseUpserts, del \in ResponseDeletes :
          pullResp = [d \in Devices |->
                        [version |-> 1,
                         changes |-> [NoChanges EXCEPT ![SyncTable] =
                                        [upserts |-> u, deletes |-> del]]]]
    /\ toApply = [d \in Devices |-> << >>]
    /\ pushReq = [d \in Devices |-> << >>]
    /\ cycles = [d \in Devices |-> 0]
    /\ remote = [t \in Tables |-> EmptyTable]
    /\ serverVersion = 1
    /\ hist = [d \in Devices |-> NoHist]
    /\ InitExtra

\* applyServerChanges(table, response.upserts, response.deletes) is called
ApplyResponse(d) ==
    /\ ops[d] = << >>
    /\ cycles[d] < MaxCycles
    /\ cycles' = [cycles EXCEPT ![d] = @ + 1]
    /\ applyServerChangesStart(d, SyncTable, pullResp[d].changes[SyncTable].upserts,
                               pullResp[d].changes[SyncTable].deletes, "caller")
    /\ UNCHANGED <<calls, engineVars, serverVars, hist, extraVars>>

\* the running call goes on by one awaited storage call
ApplyRun(d) ==
    /\ \E i \in 1..Len(ops[d]) : applyPut(d, i) \/ applyGet(d, i) \/ applyUpdate(d, i)
    /\ UNCHANGED <<calls, engineVars, cycles, serverVars, hist, extraVars>>

NextApply == \E d \in Devices : ApplyResponse(d) \/ ApplyRun(d)

SpecApply == InitApply /\ [][NextApply]_vars

\* ------------------------------------------------------------- properties
IsPrefix(s, t) == Len(s) <= Len(t) /\ SubSeq(t, 1, Len(s)) = s

\* number of pending or logged change entries that stem from user mutation m
EntriesOf(d, m) ==
    Cardinality({ i \in 1..Len(timers[d]) : timers[d][i].mut = m })
    + Cardinality({ i \in 1..Len(outbox[d]) : outbox[d][i].mut = m })

\* C1 (Spec): outbox conservation. A cycle that started with no logChange
\* pending, ran with no local mutation and no remote write in between, and
\* completed (its push was accepted) leaves the outbox empty and the cursor
\* at least one above its value at the start of the cycle.
C1_OutboxConservation ==
    \A d \in Devices :
        (hist[d].outcome = "completed" /\ hist[d].quiet)
            => /\ outbox[d] = << >>
               /\ lastSyncVersion[d] >= hist[d].startVersion + 1
               /\ serverVersion >= lastSyncVersion[d]

\* both tracked mutations were in the outbox when the cycle started
C1_Witness ==
    \E d \in Devices :
        /\ hist[d].outcome = "completed"
        /\ hist[d].quiet
        /\ Len(hist[d].startOutbox) = MaxCalls
        /\ outbox[d] = << >>

\* the newest version any remote row was written at
MaxRowVersion ==
    LET vs == UNION { { remote[t][id].ver : id \in DOMAIN remote[t] } : t \in Tables }
    IN IF vs = {} THEN 0 ELSE CHOOSE v \in vs : \A w \in vs : w <= v

\* the device has nothing left to send and its last completed cycle pulled
\* after the last remote write
Settled(d) ==
    /\ engineState[d] = "Idle"
    /\ hist[d].outcome = "completed"
    /\ timers[d] = << >>
    /\ outbox[d] = << >>
    /\ ops[d] = << >>
    /\ pullResp[d].version >= MaxRowVersion

\* both devices have edited the record, every edit was tracked, and the
\* newest one is a create or an update that the server holds as a live row
BothEdited ==
    /\ { muts[m].dev : m \in 1..Len(muts) } = Devices
    /\ \A m \in 1..Len(muts) : muts[m].tracking /\ muts[m].hooked
    /\ muts[Len(muts)].operation \in {"create", "update"}
    /\ SyncId \in DOMAIN remote[SyncTable]
    /\ ~remote[SyncTable][SyncId].rec.deleted

\* C2 (SpecDevices): convergence under last-write-wins. Once both devices
\* have edited the same record and both have completed their cycles, a
\* further pull included, every device holds the record version with the
\* larger updatedAt.
C2_Convergence ==
    (BothEdited /\ \A d \in Devices : Settled(d))
        => \A d \in Devices :
              /\ SyncId \in DOMAIN store[d][SyncTable]
              /\ store[d][SyncTable][SyncId].updatedAt = Len(muts)

\* C3 (Spec): at most one sync cycle is in flight; a request that arrives
\* while the engine is not Idle starts no second cycle, and none runs once
\* the engine is Idle again.
C3_OneCycleInFlight ==
    \A d \in Devices :
        /\ hist[d].inFlight <= 1
        /\ (engineState[d] = "Idle") <=> (hist[d].inFlight = 0)

\* a request has been rejected and the cycle it met is still the only one
C3_Witness ==
    \E d \in Devices :
        /\ hist[d].rejected
        /\ engineState[d] # "Idle"
        /\ hist[d].inFlight = 1

\* C4 (Spec): pull before push. Whenever the push request of a cycle is in
\* flight (or accepted), the pull of that same cycle has completed, its
\* response is applied throughout and the cursor holds its version.
C4_PullBeforePush ==
    \A d \in Devices :
        /\ engineState[d] \in {"Pushing", "ImageSyncing"} => hist[d].pulled
        /\ engineState[d] = "Pushing"
              => /\ toApply[d] = << >>
                 /\ EngineOps(d) = {}
                 /\ lastSyncVersion[d] = pullResp[d].version

\* a push is in flight after a pull that brought a record, now stored
C4_Witness ==
    \E d \in Devices :
        /\ engineState[d] = "Pushing"
        /\ pullResp[d].changes[SyncTable].upserts # << >>
        /\ SyncId \in DOMAIN store[d][SyncTable]
        /\ pushReq[d] # << >>

C6_NoEntryWhileDisabled ==
    [][\A d \in Devices :
          ~isTracking[d]
              => /\ Len(timers'[d]) <= Len(timers[d])
                 /\ Len(timers'[d]) + Len(outbox'[d]) = Len(timers[d]) + Len(outbox[d])]_vars

\* the user wrote to a hooked table while tracking was disabled, and nothing
\* is pending or logged for that write
C6_Witness ==
    \E d \in Devices, m \in 1..Len(muts) :
        /\ muts[m].dev = d
        /\ muts[m].hooked
        /\ ~muts[m].tracking
        /\ EntriesOf(d, m) = 0

\* C7 (SpecTracker): once initializeChangeTracking has been called, however
\* often, the hooks are registered once, and every user mutation made while
\* tracking is enabled has exactly one change entry, for its table and
\* record id.
C7_ExactlyOneChange ==
    \A d \in Devices :
        /\ hooks[d] <= 1
        /\ \A m \in 1..Len(muts) :
              (muts[m].dev = d /\ muts[m].hooked /\ muts[m].tracking)
                  => /\ EntriesOf(d, m) = 1
                     /\ \A i \in 1..Len(timers[d]) :
                           timers[d][i].mut = m
                               => /\ timers[d][i].table = muts[m].table
                                  /\ timers[d][i].recordId = muts[m].recordId
                                  /\ timers[d][i].operation = muts[m].operation
                     /\ \A i \in 1..Len(outbox[d]) :
                           outbox[d][i].mut = m
                               => /\ outbox[d][i].table = muts[m].table
                                  /\ outbox[d][i].recordId = muts[m].recordId
                                  /\ outbox[d][i].operation = muts[m].operation

\* initializeChangeTracking has been called again after its first call, and
\* the change of a tracked mutation is logged
C7_Witness ==
    \E d \in Devices, m \in 1..Len(muts) :
        /\ hist[d].again
        /\ muts[m].dev = d
        /\ muts[m].hooked
        /\ muts[m].tracking
        /\ \E i \in 1..Len(outbox[d]) : outbox[d][i].mut = m

\* C8 (SpecTracker): applyServerChanges, bulkImportWithoutTracking and
\* clearTableWithoutTracking add no change entry for what they write: every
\* pending or logged entry stems from a user mutation.
C8_NoEntryForOwnWrites ==
    \A d \in Devices :
        /\ \A i \in 1..Len(timers[d]) : timers[d][i].origin = "user"
        /\ \A i \in 1..Len(outbox[d]) : outbox[d][i].origin = "user"

\* C9 (SpecTracker): every user mutation on a hooked table has its change
\* entry, pending or logged, also when it was made while a suspending
\* operation was awaiting storage.
C9_EveryUserMutationLogged ==
    \A d \in Devices, m \in 1..Len(muts) :
        (muts[m].dev = d /\ muts[m].hooked) => EntriesOf(d, m) >= 1

\* the device has applied the response at least once and no call is running
Applied(d) == cycles[d] >= 1 /\ ops[d] = << >>

\* C10 (SpecApply): idempotence of apply. From the same local table, a
\* device that has applied the response once and a device that has applied
\* it more often hold the same table contents.
C10_ApplyIdempotent ==
    \A d \in Devices, e \in Devices :
        (Applied(d) /\ Applied(e)) => store[d] = store[e]

\* one device applied a response with upserts and deletes once, the other twice
C10_Witness ==
    /\ Applied("A") /\ cycles["A"] = 1
    /\ Applied("B") /\ cycles["B"] = 2
    /\ pullResp["A"].changes[SyncTable].upserts # << >>
    /\ pullResp["A"].changes[SyncTable].deletes # << >>
    /\ \E id \in DOMAIN store["B"][SyncTable] : store["B"][SyncTable][id].deleted

\* ------------------------------------------------------ the image routes
\* Two accounts send presign, upload and delete requests; a request that has
\* passed its checks awaits its R2 write while the other account's runs.
MaxRequests == 3

Started == imageResp.n + Cardinality({ u \in Users : imageReqs[u] # NoRequest })

PresignRequest(user) ==
    /\ Started < MaxRequests
    /\ \E hash \in Hashes, contentType \in ContentTypes, size \in Sizes :
          presignUpload(user, hash, contentType, size)
    /\ UNCHANGED <<syncVars, authVars, storageVars, demoVars, busVars>>

UploadRequest(user) ==
    /\ Started < MaxRequests
    /\ \E hash \in Hashes, contentType \in ContentTypes, body \in Bodies :
          uploadStart(user, hash, contentType, body)
    /\ UNCHANGED <<syncVars, authVars, storageVars, demoVars, busVars>>

UploadWrite(user) ==
    /\ uploadPut(user)
    /\ UNCHANGED <<syncVars, authVars, storageVars, demoVars, busVars>>

DeleteRequest(user) ==
    /\ Started < MaxRequests
    /\ \E hash \in Hashes : deleteStart(user, hash)
    /\ UNCHANGED <<syncVars, authVars, storageVars, demoVars, busVars>>

DeleteWrite(user) ==
    /\ deleteDone(user)
    /\ UNCHANGED <<syncVars, authVars, storageVars, demoVars, busVars>>

NextImages ==
    \E user \in Users :
        \/ PresignRequest(user)
        \/ UploadRequest(user)
        \/ UploadWrite(user)
        \/ DeleteRequest(user)
        \/ DeleteWrite(user)

SpecImages == Init /\ [][NextImages]_vars

\* ------------------------------------------------------- the auth client
\* The devices are signed in and have synced the record the user of device A
\* created. That user edits it, signs out, signs in again and validates the
\* session, which the server may have ended.
InitSynced ==
    /\ isInitialized = [d \in Devices |-> TRUE]
    /\ isTracking = [d \in Devices |-> TRUE]
    /\ hooks = [d \in Devices |-> 1]
    /\ store = [d \in Devices |-> [t \in Tables |->
                  IF t = SyncTable THEN TablePut(EmptyTable, Rec(SyncId, 0, FALSE))
                  ELSE EmptyTable]]
    /\ timers = [d \in Devices |-> << >>]
    /\ outbox = [d \in Devices |-> << >>]
    /\ ops = [d \in Devices |-> << >>]
    /\ logged = [d \in Devices |-> 0]
    /\ muts = << >>
    /\ calls = 0
    /\ engineState = [d \in Devices |-> "Idle"]
    /\ lastSyncVersion = [d \in Devices |-> 1]
    /\ lastError = [d \in Devices |-> ""]
    /\ pullResp = [d \in Devices |-> [version |-> 0, changes |-> NoChanges]]
    /\ toApply = [d \in Devices |-> << >>]
    /\ pushReq = [d \in Devices |-> << >>]
    /\ cycles = [d \in Devices |-> 0]
    /\ remote = [t \in Tables |->
                  IF t = SyncTable
                  THEN (SyncId :> [rec |-> Rec(SyncId, 0, FALSE), ver |-> 1])
                  ELSE EmptyTable]
    /\ serverVersion = 1
    /\ hist = [d \in Devices |-> NoHist]
    /\ InitExtra

SignIn(d) == verifyMagicLink(d) /\ UNCHANGED busVars

SessionEnds(d) == expireSession(d) /\ UNCHANGED busVars

SignOut(d) ==
    /\ \/ signOutStart(d)
       \/ \E ok \in BOOLEAN : signOutFetch(d, ok)
       \/ signOutClear(d)
    /\ UNCHANGED busVars

Validate(d) ==
    /\ \/ validateStart(d)
       \/ \E outcome \in {"answer", "unavailable", "thrown"} : validateFetch(d, outcome)
       \/ validateClear(d)
    /\ UNCHANGED busVars

NextAuth ==
    \/ LocalEdit(EngineDevice)
    \/ LogTimer(EngineDevice)
    \/ SignIn(EngineDevice)
    \/ SessionEnds(EngineDevice)
    \/ SignOut(EngineDevice)
    \/ Validate(EngineDevice)

SpecAuth == InitSynced /\ [][NextAuth]_vars

\* ------------------------------------------------ the remote data access
\* One account, new or holding only a legacy data.json, and the sync
\* requests of its devices, two of which the worker may serve at once.
MaxSyncs == 3

InitAccount ==
    /\ InitStores /\ InitEngine /\ InitImages /\ InitAuth /\ InitDemo /\ InitBus
    /\ storageOps = [q \in Requests |-> IdleRequest]
    /\ \E legacy \in BOOLEAN :
          /\ bucket = IF legacy
                      THEN ("data" :> [version |-> LegacyVersion, tables |-> LegacyTables])
                      ELSE NoBucket
          /\ pushed = [started |-> 0, initial |-> IF legacy THEN LegacyVersion ELSE 0,
                       accepted |-> << >>]

SyncArrives(q) ==
    /\ pushed.started < MaxSyncs
    /\ requestStart(q)
    /\ UNCHANGED notStorageVars

Migration(q) ==
    /\ \/ migrateCheckNew(q)
       \/ migrateCheckOld(q)
       \/ \E tableName \in TableNames : migrateSaveTable(q, tableName)
       \/ migrateSaveMetadata(q)
       \/ migrateError(q)
    /\ UNCHANGED notStorageVars

Push(q) ==
    /\ pushAccept(q)
    /\ UNCHANGED notStorageVars

NextStorage == \E q \in Requests : SyncArrives(q) \/ Migration(q) \/ Push(q)

SpecStorage == InitAccount /\ [][NextStorage]_vars

\* no mutation of the device's user since its current or last cycle started
NoLocalMutationSince(d) ==
    \A m \in (hist[d].startMuts + 1)..Len(muts) : muts[m].dev # d

\* the ids a sequence of ids holds
Range(s) == { s[i] : i \in 1..Len(s) }

\* C11 (Spec): soft-delete propagation. A cycle without local mutation never
\* reduces the ids a local table holds, and once its pull response is
\* applied, every record the device held whose id the response lists as
\* deleted is still there, marked deleted.
C11_SoftDeletePropagates ==
    \A d \in Devices, t \in Tables :
        (hist[d].outcome # "none" /\ NoLocalMutationSince(d))
            => /\ DOMAIN hist[d].startStore[t] \subseteq DOMAIN store[d][t]
               /\ (hist[d].pulled /\ engineState[d] \in {"Pushing", "ImageSyncing"})
                     => \A id \in Range(pullResp[d].changes[t].deletes) :
                           id \in DOMAIN hist[d].startStore[t] => store[d][t][id].deleted

\* a record live at the start of the cycle is marked deleted by its pull
C11_Witness ==
    \E d \in Devices :
        /\ engineState[d] = "Pushing"
        /\ NoLocalMutationSince(d)
        /\ SyncId \in Range(pullResp[d].changes[SyncTable].deletes)
        /\ SyncId \in DOMAIN hist[d].startStore[SyncTable]
        /\ ~hist[d].startStore[SyncTable][SyncId].deleted
        /\ store[d][SyncTable][SyncId].deleted

\* the response to a request was sent in this step
Answered(kind) == imageResp'.n = imageResp.n + 1 /\ imageResp'.kind = kind

OneBlobPerContent ==
    \A h1 \in DOMAIN blobs, h2 \in DOMAIN blobs :
        blobs[h1].bytes = blobs[h2].bytes => h1 = h2

PresignShortCircuits ==
    (Answered("presign") /\ imageResp'.status = 200 /\ imageResp'.hash \in DOMAIN blobs)
        => /\ imageResp'.alreadyExists
           /\ imageResp'.imageRef = ImageKey(imageResp'.hash)
           /\ imageResp'.uploadUrl = ""
           /\ blobs' = blobs
           /\ imageReqs' = imageReqs

\* C12 (SpecImages): image deduplication. The same bytes are stored under one
\* content hash only, whatever the number of accounts and uploads; an accepted
\* presign-upload request for a hash that is stored is answered with
\* alreadyExists = true and the imageRef of that hash, hands out no upload URL
\* and leaves the store and the pending writes as they are.
C12_ImageDedup == []OneBlobPerContent /\ [][PresignShortCircuits]_vars

\* the second account is told that the first account's image already exists
C12_Witness ==
    /\ imageResp.kind = "presign" /\ imageResp.alreadyExists
    /\ imageResp.hash \in DOMAIN blobs
    /\ blobs[imageResp.hash].uploadedBy # imageResp.user
    /\ Cardinality(DOMAIN blobs) = 1

StoredUnderOwnHash ==
    /\ \A h \in DOMAIN blobs : computeHash(blobs[h].bytes) = h
    /\ \A u \in Users :
          imageReqs[u].kind = "upload" => computeHash(imageReqs[u].body) = imageReqs[u].hash

MismatchStoresNothing ==
    (Answered("upload") /\ imageResp'.error = "Hash mismatch")
        => /\ blobs' = blobs
           /\ imageReqs' = imageReqs
           /\ ~imageResp'.success

\* C13 (SpecImages): content integrity of the image store. Every stored blob's
\* bytes hash to the key it is stored under, and so do the bytes of every
\* upload awaiting its write; an upload whose body does not hash to the hash
\* in its URL is rejected and stores nothing.
C13_ContentIntegrity == []StoredUnderOwnHash /\ [][MismatchStoresNothing]_vars

\* a mismatching upload was rejected while another image is stored
C13_Witness ==
    /\ imageResp.kind = "upload" /\ imageResp.error = "Hash mismatch"
    /\ imageResp.hash \notin DOMAIN blobs
    /\ blobs # << >>

\* C14 (SpecImages): shared-blob deletion. A blob leaves the store only in a
\* step after which no account holds a reference to it: a DELETE by one account
\* does not take away an image another account was told is stored, be it by
\* the presign short-circuit or by an upload answered "already exists".
C14_SharedBlobKept ==
    [][\A h \in DOMAIN blobs :
          h \notin DOMAIN blobs' => \A u \in Users : <<u, h>> \notin imageRefs']_vars

\* a call of the auth client went on by one step on device d
AuthStep(d, kind) == authOp'[d] # authOp[d] /\ authOp'[d].kind = kind

\* C15 (SpecAuth): an authentication failure touches no data. When
\* validateSession comes back after the server answered 401, the device's
\* five tables, its outbox and its lastSyncVersion are what they were.
C15_AuthFailureTouchesNoData ==
    [][\A d \in Devices :
          (AuthStep(d, "validate") /\ authOp'[d].stage = "done" /\ authOp'[d].status = 401)
              => /\ store'[d] = store[d]
                 /\ outbox'[d] = outbox[d]
                 /\ lastSyncVersion'[d] = lastSyncVersion[d]]_vars

\* C16 (SpecAuth): sign-out. No step of signOut sends anything to the sync
\* server or starts a cycle, and when signOut completes the session and the
\* sync metadata are gone (getCurrentSession is null, isAuthenticated false)
\* and the outbox is empty, whether the logout request succeeded, failed or
\* was not sent.
C16_SignOutDestroysAll ==
    [][\A d \in Devices :
          AuthStep(d, "signOut")
              => /\ remote' = remote /\ serverVersion' = serverVersion
                 /\ pushReq' = pushReq /\ engineState' = engineState
                 /\ authOp'[d].stage = "done"
                       => /\ SessionOf(meta'[d]) = NoSession
                          /\ meta'[d] = NoMeta
                          /\ lastSyncVersion'[d] = 0
                          /\ outbox'[d] = << >>]_vars

\* signOut has completed after a failed logout request and has emptied an
\* outbox that held entries; the server still accepts the token
C16_Witness ==
    \E d \in Devices :
        /\ authOp[d].kind = "signOut" /\ authOp[d].stage = "done"
        /\ authOp[d].logout = "failed" /\ authOp[d].token \in sessions
        /\ authOp[d].startOutbox > 0
        /\ outbox[d] = << >> /\ ~isAuthenticated(d)

\* the changes of a push request for one record, and their times
ChangesFor(req, t, id) ==
    { i \in 1..Len(req) : req[i].table = t /\ req[i].recordId = id }

LastFor(req, t, id) ==
    CHOOSE i \in ChangesFor(req, t, id) : \A j \in ChangesFor(req, t, id) : j <= i

RemoteTime(t, id) == remote[t][id].rec.updatedAt

\* the push of device d is accepted in this step
PushAccepted(d) == engineState[d] = "Pushing" /\ engineState'[d] = "ImageSyncing"

LastWriteWins(d, t, id) ==
    LET req == pushReq[d]
        mine == ChangesFor(req, t, id)
        last == req[LastFor(req, t, id)]
    IN  mine # {} =>
        \* an older change: the id is reported
        /\ (\E i \in mine : id \in DOMAIN remote[t] /\ RemoteTime(t, id) > IncomingTime(req[i]))
              => id \in hist'[d].conflictIds
        \* nothing but older changes: the remote row is kept as it is
        /\ (\A i \in mine : id \in DOMAIN remote[t] /\ RemoteTime(t, id) > IncomingTime(req[i]))
              => remote'[t][id] = remote[t][id]
        \* nothing but newer changes: the last one is the row, and no report
        /\ (\A i \in mine : id \in DOMAIN remote[t] /\ RemoteTime(t, id) < IncomingTime(req[i]))
              => /\ id \notin hist'[d].conflictIds
                 /\ remote'[t][id].ver = serverVersion + 1
                 /\ IF last.operation = "delete"
                    THEN remote'[t][id].rec.deleted
                    ELSE remote'[t][id].rec = last.payload

\* C17 (Spec): last-write-wins on push. When a push is accepted, a record
\* whose remote row has a newer updatedAt than a pushed change is in the
\* returned conflictIds, and its row is kept when all pushed changes of that
\* record are older; a record all of whose pushed changes are newer than the
\* remote row takes the last pushed change (a delete marks it deleted) at the
\* new version and is not in conflictIds.
C17_LastWriteWins ==
    [][\A d \in Devices, t \in Tables, id \in Ids :
          PushAccepted(d) => LastWriteWins(d, t, id)]_vars

\* the device's older edit lost against the row another device wrote
C17_Witness ==
    \E d \in Devices :
        /\ engineState[d] = "ImageSyncing"
        /\ SyncId \in hist[d].conflictIds
        /\ ChangesFor(pushReq[d], SyncTable, SyncId) # {}
        /\ \A i \in ChangesFor(pushReq[d], SyncTable, SyncId) :
              pushReq[d][i].operation # "delete"
                 /\ remote[SyncTable][SyncId].rec # pushReq[d][i].payload
                 /\ remote[SyncTable][SyncId].rec.updatedAt > pushReq[d][i].payload.updatedAt

\* the changes of the last pull response of device d are in its store
ResponseApplied(d) ==
    \A t \in Tables :
        /\ \A rec \in Range(pullResp[d].changes[t].upserts) :
              rec.id \in DOMAIN store[d][t] /\ store[d][t][rec.id] = rec
        /\ \A id \in Range(pullResp[d].changes[t].deletes) :
              id \in DOMAIN store[d][t] => store[d][t][id].deleted

\* C20 (Spec): cursor after apply. While the cursor of a device equals the
\* version of the pull response of its current or last cycle and that response
\* brought changes, no table of the response is left to apply and no
\* applyServerChanges of the engine is running; unless the user has edited
\* since, every upsert of the response is the local record and every deleted
\* id that is held locally is marked deleted. This covers the cycle that was
\* aborted by a storage error during apply.
C20_CursorAfterApply ==
    \A d \in Devices :
        (hist[d].pulled /\ lastSyncVersion[d] = pullResp[d].version
            /\ pullResp[d].changes # NoChanges)
            => /\ DropEmpty(toApply[d], pullResp[d].changes) = << >>
               /\ EngineOps(d) = {}
               /\ hist[d].failStage # "apply"
               /\ NoLocalMutationSince(d) => ResponseApplied(d)

\* the cursor has moved to the version of a response whose change is applied
C20_Witness ==
    \E d \in Devices :
        /\ engineState[d] = "Pushing"
        /\ lastSyncVersion[d] = pullResp[d].version
        /\ lastSyncVersion[d] > hist[d].startVersion
        /\ pullResp[d].changes[SyncTable].upserts # << >>
        /\ ResponseApplied(d)

\* the version of the account before the next accepted push
AccountVersion ==
    IF pushed.accepted = << >> THEN pushed.initial
    ELSE pushed.accepted[Len(pushed.accepted)]

\* C18 (SpecStorage): the remote version. An account without stored metadata
\* and without legacy data is at version 0; every accepted push returns the
\* account's version plus one, for a legacy account counted from the version
\* of its data.json, so that the versions returned never decrease, whatever
\* migrations ran, failed or overlapped in between.
C18_VersionStepsByOne ==
    [][\A q \in Requests :
          (storageOps[q].stage = "push" /\ storageOps'[q].stage = "idle")
              => /\ Len(pushed'.accepted) = Len(pushed.accepted) + 1
                 /\ pushed'.accepted[Len(pushed'.accepted)] = AccountVersion + 1]_vars

\* the ids of the outbox entries sent in the push request of device d
SentIds(d) == { pushReq[d][i].id : i \in 1..Len(pushReq[d]) }

NotSent(d, e) == e.id \notin SentIds(d)

Unsent(d) == SelectSeq(outbox[d], LAMBDA e : NotSent(d, e))

\* C19 (SpecAuth): consumption of the outbox. An accepted push removes the
\* entries sent in its request and no other, so that the entries appended
\* while the request was in flight are still there, in their order; apart
\* from an accepted push and from signOut, the outbox of a device changes
\* only by one entry being appended.
C19_PushRemovesWhatWasSent ==
    [][\A d \in Devices :
          /\ PushAccepted(d) => outbox'[d] = Unsent(d)
          /\ (outbox'[d] # outbox[d] /\ ~PushAccepted(d) /\ ~AuthStep(d, "signOut"))
                => \E e \in Range(outbox'[d]) : outbox'[d] = Append(outbox[d], e)]_vars

\* ------------------------------------------- the change log of one device
\* Device A's user edits the records of the items table; the deferred
\* logChange calls run, or reject; the page may be closed while no cycle
\* runs and mounted again; the engine runs whole cycles.
OutboxEdit(d) ==
    /\ calls < MaxCalls
    /\ calls' = calls + 1
    /\ \E id \in Ids :
          \/ UserCreate(d, SyncTable, id)
          \/ \E m \in UserMods : UserUpdate(d, SyncTable, id, m)
          \/ UserDelete(d, SyncTable, id)
    /\ Disturb(d)
    /\ UNCHANGED <<engineVars, cycles, serverVars, extraVars>>

AppendFails(d) ==
    /\ appendFails(d)
    /\ hist' = [hist EXCEPT ![d].failed = @ \cup {Head(timers[d]).mut}]
    /\ UNCHANGED <<calls, engineVars, cycles, serverVars, extraVars>>

AppStops(d) ==
    /\ engineState[d] = "Idle"
    /\ isInitialized[d]
    /\ appStops(d)
    /\ hist' = [hist EXCEPT ![d].dropped =
                   @ \cup { timers[d][i].mut : i \in 1..Len(timers[d]) }]
    /\ UNCHANGED <<calls, engineVars, cycles, serverVars, extraVars>>

NextOutbox ==
    \/ OutboxEdit(EngineDevice)
    \/ LogTimer(EngineDevice)
    \/ AppendFails(EngineDevice)
    \/ AppStops(EngineDevice)
    \/ Mount(EngineDevice)
    \/ StartCycle(EngineDevice)
    \/ PullDone(EngineDevice)
    \/ ApplyDone(EngineDevice)
    \/ PushDone(EngineDevice)
    \/ ImagesDone(EngineDevice)

SpecOutbox == Init /\ [][NextOutbox]_vars

\* the user mutations of device d on record id of table t, as stamps
MutationsOf(d, t, id) ==
    { m \in 1..Len(muts) :
        muts[m].dev = d /\ muts[m].table = t /\ muts[m].recordId = id }

\* mutation m is the latest one of its record
LatestOfRecord(m) ==
    \A n \in MutationsOf(muts[m].dev, muts[m].table, muts[m].recordId) : n <= m

\* the local table shows what mutation m did to its record
StoreShows(d, m) ==
    LET tbl == store[d][muts[m].table]
        id == muts[m].recordId
    IN IF muts[m].operation = "delete"
       THEN id \notin DOMAIN tbl
       ELSE id \in DOMAIN tbl /\ tbl[id].updatedAt = m

\* C21 (SpecOutbox): change tracking never fails the data operation. A
\* create, update or delete whose logChange rejected is in the local table
\* all the same, and the rejection reaches neither the caller nor the
\* engine: no error is recorded for it.
C21_AppendFailureKeepsData ==
    \A d \in Devices, m \in 1..Len(muts) :
        (m \in hist[d].failed /\ LatestOfRecord(m)) =>
            /\ muts[m].dev = d
            /\ StoreShows(d, m)
            /\ lastError[d] = ""

C21_Witness ==
    \E m \in 1..Len(muts) :
        /\ m \in hist[EngineDevice].failed
        /\ LatestOfRecord(m)
        /\ muts[m].operation # "delete"
        /\ StoreShows(EngineDevice, m)
        /\ \A i \in 1..Len(outbox[EngineDevice]) : outbox[EngineDevice][i].mut # m


\* what the hooks of the step's mutation scheduled on device d
Scheduled(d) == SubSeq(timers'[d], Len(timers[d]) + 1, Len(timers'[d]))

\* a LocalChange row of a create or an update carries the whole record
WholeRecord(e) ==
    /\ DOMAIN e.payload = {"id", "updatedAt", "deleted"}
    /\ e.payload.id = e.recordId

\* C22 (SpecOutbox): the change of an update carries the whole record as it
\* is after the modification, not the modified fields alone; the change of
\* a create carries the created record; the change of a delete carries no
\* payload. Both for the logChange calls a mutation schedules and for the
\* rows of the change log.
C22_PayloadIsWholeRecord ==
    /\ [](\A d \in Devices : \A i \in 1..Len(outbox[d]) :
            IF outbox[d][i].operation = "delete"
            THEN outbox[d][i].payload = NoPayload
            ELSE WholeRecord(outbox[d][i]))
    /\ [][\A d \in Devices :
            (Len(muts') = Len(muts) + 1 /\ muts'[Len(muts')].dev = d) =>
                LET mu == muts'[Len(muts')]
                IN \A i \in 1..Len(Scheduled(d)) :
                      /\ Scheduled(d)[i].operation = mu.operation
                      /\ Scheduled(d)[i].payload =
                            IF mu.operation = "delete" THEN NoPayload
                            ELSE store'[d][mu.table][mu.recordId]]_vars

C22_Witness ==
    \E i \in 1..Len(outbox[EngineDevice]) :
        LET e == outbox[EngineDevice][i]
        IN /\ e.operation = "update"
           /\ e.recordId \in DOMAIN store[EngineDevice][e.table]
           /\ e.payload = store[EngineDevice][e.table][e.recordId]
           /\ e.payload.updatedAt = e.mut


\* the mutations of device d made with the hooks registered and tracking on
TrackedMutations(d) ==
    { m \in 1..Len(muts) : muts[m].dev = d /\ muts[m].tracking /\ muts[m].hooked }

\* C28 (SpecOutbox): the append to the change log is atomic with its
\* mutation. Every tracked mutation has its row written (logged counts the
\* rows ever written) or its logChange still pending; none is stored with
\* its change lost for good.
C28_AppendAtomicWithMutation ==
    \A d \in Devices :
        Cardinality(TrackedMutations(d)) = logged[d] + Len(timers[d])


\* the rows of one record stand in the order of their mutations, each row
\* with the operation of its own mutation
InMutationOrder(s) ==
    /\ \A i \in 1..Len(s) :
          s[i].origin = "user" => s[i].operation = muts[s[i].mut].operation
    /\ \A i \in 1..Len(s) : \A j \in (i + 1)..Len(s) :
          (s[i].table = s[j].table /\ s[i].recordId = s[j].recordId) =>
              s[i].mut < s[j].mut

\* C29 (SpecOutbox): the changes of one record stand in the change log, and
\* in the changes array of the push request, in the order in which the
\* mutations were made; an append adds one row and leaves the rows before
\* it as they are (no coalescing).
C29_PerRecordOrder ==
    /\ [](\A d \in Devices : InMutationOrder(outbox[d]) /\ InMutationOrder(pushReq[d]))
    /\ [][\A d \in Devices :
            logged'[d] # logged[d] =>
                /\ Len(outbox'[d]) = Len(outbox[d]) + 1
                /\ SubSeq(outbox'[d], 1, Len(outbox[d])) = outbox[d]]_vars

C29_Witness ==
    LET req == pushReq[EngineDevice]
    IN /\ engineState[EngineDevice] = "Pushing"
       /\ Len(req) = 2
       /\ req[1].recordId = req[2].recordId
       /\ req[1].operation = "create"
       /\ req[2].operation # "create"
       /\ req[1].mut < req[2].mut


\* a stored blob, or an upload awaiting its write, within the limits
ValidImage(bytes, contentType) ==
    /\ byteLength(bytes) <= MAX_IMAGE_SIZE
    /\ contentType \in ALLOWED_CONTENT_TYPES

StoredImagesValid ==
    /\ \A h \in DOMAIN blobs :
          /\ ValidImage(blobs[h].bytes, blobs[h].contentType)
          /\ HashLength(h) = 64
    /\ \A u \in Users :
          imageReqs[u].kind = "upload" =>
              ValidImage(imageReqs[u].body, imageReqs[u].contentType)

\* a request answered 400 is an error response and changed nothing
RejectionStoresNothing ==
    (imageResp'.n # imageResp.n /\ imageResp'.status = 400)
        => /\ blobs' = blobs
           /\ imageReqs' = imageReqs
           /\ imageRefs' = imageRefs
           /\ ~imageResp'.success
           /\ imageResp'.error # ""

\* C24 (SpecImages): no blob is stored that is larger than 10 MB or whose
\* content type is not one of the allowed image types, on any path that
\* stores blobs; a request failing validation (hash length, content type,
\* size) is answered with an error and leaves the store unchanged.
C24_ImageValidation == []StoredImagesValid /\ [][RejectionStoresNothing]_vars

C24_Witness ==
    /\ imageResp.kind = "upload"
    /\ imageResp.status = 400
    /\ imageResp.error \in {"Image too large", "Invalid content type"}
    /\ blobs # << >>
    /\ imageResp.hash \notin DOMAIN blobs


\* ------------------------------------- one call of applyServerChanges
\* Device A applies the upserts and deletes of a response to its items
\* table, starting from any table over two ids; each awaited storage call
\* succeeds or rejects. The call's counters (upsertedCount, deletedCount)
\* and its outcome are kept in hist; a second call applies the response
\* again, as the next pull does when the cursor was not advanced.
Returned(d) == IF ops'[d] = << >> THEN "returned" ELSE "running"

ResultCall(d) ==
    /\ ops[d] = << >>
    /\ cycles[d] < MaxCycles
    /\ cycles' = [cycles EXCEPT ![d] = @ + 1]
    /\ applyServerChangesStart(d, SyncTable, pullResp[d].changes[SyncTable].upserts,
                               pullResp[d].changes[SyncTable].deletes, "caller")
    /\ hist' = [hist EXCEPT ![d].startStore = store[d], ![d].upserted = 0,
                            ![d].deleted = 0, ![d].failStage = "",
                            ![d].outcome = Returned(d)]
    /\ UNCHANGED <<calls, engineVars, serverVars, extraVars>>

\* await table.put(record); upsertedCount++
ResultPut(d) ==
    /\ \E i \in 1..Len(ops[d]) : applyPut(d, i)
    /\ hist' = [hist EXCEPT ![d].upserted = @ + 1, ![d].outcome = Returned(d)]
    /\ UNCHANGED <<calls, engineVars, cycles, serverVars, extraVars>>

\* const existing = await table.get(id); the loop goes on when there is none
ResultGet(d) ==
    /\ \E i \in 1..Len(ops[d]) : applyGet(d, i)
    /\ hist' = [hist EXCEPT ![d].outcome = Returned(d)]
    /\ UNCHANGED <<calls, engineVars, cycles, serverVars, extraVars>>

\* await table.update(id, { _deleted: true }); deletedCount++
ResultUpdate(d) ==
    /\ \E i \in 1..Len(ops[d]) : applyUpdate(d, i)
    /\ hist' = [hist EXCEPT ![d].deleted = @ + 1, ![d].outcome = Returned(d)]
    /\ UNCHANGED <<calls, engineVars, cycles, serverVars, extraVars>>

\* the awaited storage call rejects: the call throws out of its loop
ResultFails(d) ==
    /\ \E i \in 1..Len(ops[d]) :
          /\ storageError(d, i)
          /\ hist' = [hist EXCEPT ![d].outcome = "error",
                         ![d].failStage = IF ops[d][i].upserts # << >> THEN "put"
                                          ELSE "delete"]
    /\ UNCHANGED <<calls, engineVars, cycles, serverVars, extraVars>>

NextResult ==
    \/ ResultCall(EngineDevice)
    \/ ResultPut(EngineDevice)
    \/ ResultGet(EngineDevice)
    \/ ResultUpdate(EngineDevice)
    \/ ResultFails(EngineDevice)

SpecResult == InitApply /\ [][NextResult]_vars

ResponseOf(d) == pullResp[d].changes[SyncTable]

UpsertIds(d) == { ResponseOf(d).upserts[i].id : i \in 1..Len(ResponseOf(d).upserts) }

\* the ids the table holds when the delete loop runs: nothing removes a record
KnownIds(d) == DOMAIN hist[d].startStore[SyncTable] \cup UpsertIds(d)

\* the positions of the deletes array whose id has no local record
MissingDeletes(d) ==
    { i \in 1..Len(ResponseOf(d).deletes) : ResponseOf(d).deletes[i] \notin KnownIds(d) }

\* C30 (SpecResult): a server delete for an id with no local record is a
\* no-op. A call that returned has created no record for such an id, has
\* not counted it in its 'deleted' total, and has marked the record of every
\* other delete id; the call does not fail over it.
C30_DeleteOfMissingIsNoOp ==
    \A d \in Devices :
        hist[d].outcome = "returned" =>
            /\ DOMAIN store[d][SyncTable] = KnownIds(d)
            /\ hist[d].deleted =
                  Len(ResponseOf(d).deletes) - Cardinality(MissingDeletes(d))
            /\ \A i \in 1..Len(ResponseOf(d).deletes) :
                  i \notin MissingDeletes(d) =>
                      store[d][SyncTable][ResponseOf(d).deletes[i]].deleted

\* the deletes name an unknown id first and a stored record second
C30_Witness ==
    LET d == EngineDevice
    IN /\ hist[d].outcome = "returned"
       /\ cycles[d] = 1
       /\ MissingDeletes(d) = {1}
       /\ Len(ResponseOf(d).deletes) = 2
       /\ hist[d].deleted = 1
       /\ store[d][SyncTable][ResponseOf(d).deletes[2]].deleted


\* C27 (SpecResult): one failing upsert does not abort the rest. When a
\* table.put of the call has rejected, every other upsert of the response
\* has been applied and the record of every delete id is marked deleted.
C27_FailingUpsertSkipped ==
    \A d \in Devices :
        (hist[d].outcome = "error" /\ hist[d].failStage = "put") =>
            /\ hist[d].upserted >= Len(ResponseOf(d).upserts) - 1
            /\ \A i \in 1..Len(ResponseOf(d).deletes) :
                  i \notin MissingDeletes(d) =>
                      /\ ResponseOf(d).deletes[i] \in DOMAIN store[d][SyncTable]
                      /\ store[d][SyncTable][ResponseOf(d).deletes[i]].deleted


\* ----------------------------------------------------- demo mode on a device
\* Device A has mounted useSync (hooks registered, tracking enabled). Its
\* user edits records, enters demo mode and leaves it again.
DemoFrame == UNCHANGED <<calls, engineVars, cycles, serverVars, hist, imageVars,
                         authVars, storageVars, busVars>>

DemoEdit(d) ==
    /\ ~demo[d].active
    /\ OutboxEdit(d)

EnterDemo(d) ==
    /\ ~demo[d].active
    /\ demo[d].uses < MaxDemoCalls
    /\ \E data \in DemoFiles \cup {NoDemoData} : enterDemoMode(d, data)
    /\ DemoFrame

ExitDemo(d) ==
    /\ demo[d].active
    /\ demo[d].uses < MaxDemoCalls
    /\ exitDemoMode(d)
    /\ DemoFrame

NextDemo ==
    \/ DemoEdit(EngineDevice)
    \/ LogTimer(EngineDevice)
    \/ EnterDemo(EngineDevice)
    \/ ExitDemo(EngineDevice)

SpecDemo == Init /\ [][NextDemo]_vars

\* C26 (SpecDemo): seeding the demo data and restoring the user's data add
\* no change entries, also with tracking initialized and enabled: every
\* pending or logged change stems from a user mutation.
C26_DemoAddsNoChange ==
    \A d \in Devices :
        /\ \A i \in 1..Len(timers[d]) : timers[d][i].origin \notin {"demo", "clear"}
        /\ \A i \in 1..Len(outbox[d]) : outbox[d][i].origin \notin {"demo", "clear"}


\* ------------------------------------------------ the engine's events
\* Device A's useSync mounts and unmounts (each mount subscribes a new
\* handler); sync() is requested while the engine is idle; the cycle runs
\* and publishes its events; the server may end the session, the user may
\* verify a magic link again.
EventsFrame == UNCHANGED <<trackerVars, calls, serverVars, imageVars, authVars,
                           storageVars, demoVars>>

CanPublish == Len(bus.events) < MaxEvents

Subscribe(h) ==
    /\ subscribe(h)
    /\ UNCHANGED <<syncVars, imageVars, authVars, storageVars, demoVars>>

Unsubscribe(h) ==
    /\ unsubscribe(h)
    /\ UNCHANGED <<syncVars, imageVars, authVars, storageVars, demoVars>>

Trigger(d) ==
    /\ CanPublish
    /\ \E trigger \in {"timer", "change", "manual"} : syncTrigger(d)
    /\ EventsFrame

PullAnswer(d) ==
    /\ CanPublish
    /\ \/ pullOk(d) /\ bus' = Published(bus, "sync:progress", lastError'[d])
       \/ pullFail(d) /\ bus' = Published(bus, "sync:error", lastError'[d])
       \/ pullUnauthorized(d)
    /\ EventsFrame

\* the apply, push and image steps of the cycle, each with its event
CycleStep(d) ==
    /\ CanPublish
    /\ \/ /\ applyNext(d)
          /\ bus' = Published(bus, "sync:progress", lastError'[d])
          /\ UNCHANGED <<calls, serverVars>>
       \/ /\ pushOk(d)
          /\ bus' = Published(bus, "sync:progress", lastError'[d])
          /\ UNCHANGED calls
       \/ /\ imagesOk(d)
          /\ bus' = Published(bus, "sync:completed", lastError'[d])
          /\ UNCHANGED <<trackerVars, calls, serverVars>>
    /\ UNCHANGED <<imageVars, authVars, storageVars, demoVars>>

\* verifyToken: a successful verifyMagicLink
Reauthenticate(d) ==
    /\ verifyMagicLink(d)
    /\ bus' = [bus EXCEPT !.authRequired[d] = FALSE]
    /\ UNCHANGED demoVars

SessionExpires(d) ==
    /\ expireSession(d)
    /\ UNCHANGED <<busVars, demoVars>>

NextEvents ==
    \/ \E h \in Handlers : Subscribe(h) \/ Unsubscribe(h)
    \/ Trigger(EngineDevice)
    \/ PullAnswer(EngineDevice)
    \/ CycleStep(EngineDevice)
    \/ Reauthenticate(EngineDevice)
    \/ SessionExpires(EngineDevice)

SpecEvents == Init /\ [][NextEvents]_vars

\* the numbers of the events published in (from, to]
EventsBetween(from, to) == [i \in 1..(to - from) |-> from + i]

\* C23 (SpecEvents): events are multicast without buffering. A handler has
\* received exactly the events published while it was subscribed, each once
\* and in order: none published before it subscribed, none after it
\* unsubscribed, and every subscribed handler gets every event.
C23_MulticastNoBuffering ==
    \A h \in Handlers :
        bus.received[h] =
            IF bus.subAt[h] = NotYet THEN << >>
            ELSE EventsBetween(bus.subAt[h],
                     IF bus.unsubAt[h] = NotYet THEN Len(bus.events) ELSE bus.unsubAt[h])

C23_Witness ==
    /\ bus.received["f1"] = <<1, 2>>
    /\ bus.received["f2"] = <<2, 3>>
    /\ Len(bus.events) = 3

LastUpsert(d, id) ==
    LET u == ResponseOf(d).upserts
        at == CHOOSE i \in 1..Len(u) :
                 u[i].id = id /\ \A j \in (i + 1)..Len(u) : u[j].id # id
    IN u[at]

DeleteIds(d) == { ResponseOf(d).deletes[i] : i \in 1..Len(ResponseOf(d).deletes) }

\* C31 (SpecResult): apply overwrites unconditionally. After a call of
\* applyServerChanges that returned, the local record of every upserted id
\* is the server's record for it, whatever the table held before and
\* whatever its updatedAt was; an id that is also among the deletes holds
\* the server's content with the deleted marker set.
C31_ApplyOverwrites ==
    \A d \in Devices :
        hist[d].outcome = "returned" =>
            \A id \in UpsertIds(d) :
                /\ id \in DOMAIN store[d][SyncTable]
                /\ store[d][SyncTable][id] =
                      IF id \in DeleteIds(d)
                      THEN Merge(LastUpsert(d, id), [deleted |-> TRUE])
                      ELSE LastUpsert(d, id)

\* an id stored as deleted, upserted twice with the older record last, and
\* named in the deletes as well; the other id is upserted over nothing
C31_Witness ==
    LET d == EngineDevice
        u == ResponseOf(d).upserts
    IN /\ hist[d].outcome = "returned"
       /\ Len(u) = 2
       /\ u[1].id = u[2].id
       /\ u[1].updatedAt > u[2].updatedAt
       /\ u[1].id \in DOMAIN hist[d].startStore[SyncTable]
       /\ hist[d].startStore[SyncTable][u[1].id].deleted
       /\ u[1].id \in DeleteIds(d)
       /\ store[d][SyncTable][u[1].id] = Merge(u[2], [deleted |-> TRUE])

\* --------------------------------------- one suspending operation at a time
\* Device A calls applyServerChanges, bulkImportWithoutTracking or
\* clearTableWithoutTracking, one call after the other has ended, with the
\* tracking flag on or off, on a known or an unknown table name; each awaited
\* storage call succeeds or rejects. hist keeps the flag before the call and
\* how the call ended.
TableArguments == OpTables \cup {"unknown"}

\* the application switches tracking before its first call
AloneSet(d) ==
    /\ calls = 0
    /\ ops[d] = << >>
    /\ \E enabled \in BOOLEAN : setTrackingEnabled(d, enabled)
    /\ NoCall

AloneCall(d) ==
    /\ ops[d] = << >>
    /\ \E t \in TableArguments :
          \/ /\ unknownTable(d, t)
             /\ hist' = [hist EXCEPT ![d].flagBefore = isTracking[d],
                                     ![d].outcome = "unknown table"]
          \/ /\ t \in Tables
             /\ \/ \E u \in UpToOne(ResponseRecords), del \in UpToOne(Ids) :
                      applyServerChangesStart(d, t, u, del, "caller")
                \/ \E r \in UpToOne(ResponseRecords) :
                      bulkImportWithoutTrackingStart(d, t, r)
                \/ clearTableWithoutTrackingStart(d, t)
             /\ hist' = [hist EXCEPT ![d].flagBefore = isTracking[d],
                                     ![d].outcome = Returned(d)]
    /\ calls < MaxCalls
    /\ calls' = calls + 1
    /\ UNCHANGED <<engineVars, cycles, serverVars, extraVars>>

AloneStep(d) ==
    /\ \E i \in 1..Len(ops[d]) :
          \/ applyPut(d, i)
          \/ applyGet(d, i)
          \/ applyUpdate(d, i)
          \/ bulkPut(d, i)
          \/ tableClear(d, i)
    /\ hist' = [hist EXCEPT ![d].outcome = Returned(d)]
    /\ UNCHANGED <<calls, engineVars, cycles, serverVars, extraVars>>

AloneFails(d) ==
    /\ \E i \in 1..Len(ops[d]) : storageError(d, i)
    /\ hist' = [hist EXCEPT ![d].outcome = "error"]
    /\ UNCHANGED <<calls, engineVars, cycles, serverVars, extraVars>>

NextAlone ==
    \/ AloneSet(EngineDevice)
    \/ AloneCall(EngineDevice)
    \/ AloneStep(EngineDevice)
    \/ AloneFails(EngineDevice)

SpecAlone == InitTracker /\ [][NextAlone]_vars

\* C36 (SpecAlone): a suspending operation that runs alone restores the
\* flag on every exit. After the call has returned, has thrown for an
\* unknown table name or has thrown a storage error, isTrackingEnabled() is
\* what it was immediately before the call.
C36_FlagRestoredOnExit ==
    \A d \in Devices :
        hist[d].outcome \in {"returned", "unknown table", "error"} =>
            isTrackingEnabled(d) = hist[d].flagBefore

\* the second call threw a storage error with tracking enabled before it
C36_Witness ==
    LET d == EngineDevice
    IN /\ calls = 2
       /\ hist[d].outcome = "error"
       /\ hist[d].flagBefore
       /\ isTrackingEnabled(d)

\* C35 (SpecTracker): overlapping suspensions do not leave tracking stuck.
\* With tracking enabled before the first call, tracking is disabled while
\* any applyServerChanges, bulkImportWithoutTracking or
\* clearTableWithoutTracking call is running and enabled again once all of
\* them have finished, for every interleaving of their starts and finishes.
C35_OverlapRestoresTracking ==
    \A d \in Devices :
        isTrackingEnabled(d) = (ops[d] = << >>)

\* what validateSession may destroy on the device: session, SyncMeta, outbox
SessionData(d) == <<meta[d], lastSyncVersion[d], lastError[d], outbox[d]>>

\* C34 (SpecAuth): validateSession clears the local session only when the
\* server answers 401. The step on which the answer arrives writes nothing;
\* only a 401 leads to the clearing step, after which the session is gone
\* and the result is false; any other status that is not 200, and a fetch
\* that throws, end the call with false; a 200 ends it with true.
C34_ValidateClearsOnlyOn401 ==
    [][\A d \in Devices :
          AuthStep(d, "validate") =>
              /\ authOp[d].stage # "clear" => SessionData(d)' = SessionData(d)
              /\ authOp'[d].stage = "clear" <=>
                    (authOp[d].stage = "fetch" /\ authOp'[d].status = 401)
              /\ authOp[d].stage = "clear" =>
                    /\ authOp'[d].stage = "done"
                    /\ SessionOf(meta'[d]) = NoSession
                    /\ ~authOp'[d].result
              /\ authOp'[d].stage = "done" =>
                    authOp'[d].result = (authOp'[d].status = 200)]_vars

\* the server had ended the session: the call came back false after a 401
\* with the session cleared
C34_Witness ==
    \E d \in Devices :
        /\ authOp[d].kind = "validate" /\ authOp[d].stage = "done"
        /\ authOp[d].status = 401
        /\ ~authOp[d].result
        /\ ~isAuthenticated(d)

\* a call of enterDemoMode that returned false: made outside demo mode, it
\* left the demo flag off
EnterFailed(d) ==
    /\ ~demo[d].active
    /\ demo'[d].uses = demo[d].uses + 1
    /\ ~demo'[d].active

\* C39 (SpecDemo): a failed enterDemoMode leaves the user's data intact.
\* When loading the demo data fails, the call returns false, demo mode is
\* not active, and the five tables hold the records they held before the
\* call.
C39_FailedEnterKeepsData ==
    [][\A d \in Devices : EnterFailed(d) => store'[d] = store[d]]_vars

\* ------------------------------------------------ demo mode, there and back
\* The user of device A has edited the items table; enterDemoMode is then
\* called one or more times, each call loading its seed, and exitDemoMode
\* once. hist keeps the tables before the first enterDemoMode.
MaxEnters == 2

RoundTripEdit(d) ==
    /\ demo[d].uses = 0
    /\ OutboxEdit(d)

RoundTripEnter(d) ==
    /\ hist[d].outcome # "exited"
    /\ demo[d].uses < MaxEnters
    /\ \E data \in DemoFiles : enterDemoMode(d, data)
    /\ hist' = [hist EXCEPT ![d].startStore = IF demo[d].uses = 0 THEN store[d] ELSE @,
                            ![d].outcome = "entered"]
    /\ UNCHANGED <<calls, engineVars, cycles, serverVars, imageVars, authVars,
                   storageVars, busVars>>

RoundTripExit(d) ==
    /\ hist[d].outcome = "entered"
    /\ exitDemoMode(d)
    /\ hist' = [hist EXCEPT ![d].outcome = "exited"]
    /\ UNCHANGED <<calls, engineVars, cycles, serverVars, imageVars, authVars,
                   storageVars, busVars>>

NextRoundTrip ==
    \/ RoundTripEdit(EngineDevice)
    \/ LogTimer(EngineDevice)
    \/ RoundTripEnter(EngineDevice)
    \/ RoundTripExit(EngineDevice)

SpecRoundTrip == Init /\ [][NextRoundTrip]_vars

\* C38 (SpecRoundTrip): the demo mode round trip preserves the user's data.
\* After one or more enterDemoMode calls followed by exitDemoMode the five
\* tables equal the user's tables before the first enterDemoMode, and the
\* demo flag is cleared.
C38_RoundTripPreservesData ==
    \A d \in Devices :
        hist[d].outcome = "exited" =>
            /\ store[d] = hist[d].startStore
            /\ ~demo[d].active

\* ------------------------------------------- migrating a legacy account
\* The worker calls migrateToSplitFormat for an account, possibly twice at
\* once, one awaited R2 call at a time; a put may reject. Any reader may
\* call loadUserData or loadMetadata between two steps.
MigrateCall(q) ==
    /\ pushed.started < MaxSyncs
    /\ requestStart(q)
    /\ UNCHANGED notStorageVars

\* the call has returned (true or false); its caller goes on
MigrateReturn(q) ==
    /\ storageOps[q].stage = "push"
    /\ storageOps' = [storageOps EXCEPT ![q] = IdleRequest]
    /\ UNCHANGED <<bucket, pushed, notStorageVars>>

NextMigrate == \E q \in Requests : MigrateCall(q) \/ Migration(q) \/ MigrateReturn(q)

SpecMigrate == InitAccount /\ [][NextMigrate]_vars

\* what the account held before any migration: data.json is never deleted
AccountData == IF "data" \in DOMAIN bucket THEN bucket["data"].tables ELSE NoUserData

ReturnedTrue(q) == storageOps[q].stage = "push" /\ storageOps[q].migrated

\* a call that finds the account migrated returns false and writes nothing
SecondCallWritesNothing ==
    \A q \in Requests :
        (storageOps[q].stage = "checkNew" /\ storageOps'[q] # storageOps[q]
         /\ "metadata" \in DOMAIN bucket)
            => /\ storageOps'[q].stage = "push" /\ ~storageOps'[q].migrated
               /\ bucket' = bucket

\* C40 (SpecMigrate): the storage-format migration preserves the account's
\* data at every step. loadUserData returns the same five tables before
\* migrateToSplitFormat, between any two of its writes and after it; once a
\* call has returned true loadMetadata returns the legacy version; a call
\* made after that returns false and writes nothing.
C40_MigrationPreservesData ==
    /\ [](loadUserData(bucket) = AccountData)
    /\ [](\A q \in Requests :
             ReturnedTrue(q) => loadMetadata(bucket).version = LegacyVersion)
    /\ [][SecondCallWritesNothing]_vars

\* ------------------------------------------------- the hook and the engine
\* The useSync hook of device A is mounted, then the engine runs cycles: a
\* stage succeeds, fails on the network, or is answered 401 after the server
\* has ended the session; the user verifies a magic link again.
MaxHookEvents == 7

HookMounted == HookHandler \in bus.handlers

HookCanPublish == HookMounted /\ Len(bus.events) < MaxHookEvents

\* the mount effect: initializeChangeTracking(); refresh(); subscribe(handler)
HookMount(d) ==
    /\ bus.subAt[HookHandler] = NotYet
    /\ initializeChangeTracking(d)
    /\ bus' = [bus EXCEPT !.handlers = @ \cup {HookHandler},
                          !.subAt[HookHandler] = Len(bus.events),
                          !.ui = refresh(@, meta[d], lastError[d])]
    /\ UNCHANGED <<calls, engineVars, cycles, serverVars, hist, imageVars, authVars,
                   storageVars, demoVars>>

HookTrigger(d) ==
    /\ HookCanPublish
    /\ syncTrigger(d)
    /\ EventsFrame

HookPull(d) ==
    /\ HookCanPublish
    /\ \/ pullOk(d) /\ bus' = Published(bus, "sync:progress", lastError'[d])
       \/ pullFail(d) /\ bus' = Published(bus, "sync:error", lastError'[d])
       \/ pullUnauthorized(d)
    /\ EventsFrame

HookStep(d) ==
    /\ HookCanPublish
    /\ \/ /\ applyNext(d)
          /\ bus' = Published(bus, "sync:progress", lastError'[d])
          /\ UNCHANGED <<calls, serverVars>>
       \/ /\ pushOk(d)
          /\ bus' = Published(bus, "sync:progress", lastError'[d])
          /\ UNCHANGED calls
       \/ /\ imagesOk(d)
          /\ bus' = Published(bus, "sync:completed", lastError'[d])
          /\ UNCHANGED <<trackerVars, calls, serverVars>>
    /\ UNCHANGED <<imageVars, authVars, storageVars, demoVars>>

\* the push or the image sync fails on the network
HookFails(d) ==
    /\ HookCanPublish
    /\ pushFail(d) \/ imagesFail(d)
    /\ bus' = Published(bus, "sync:error", lastError'[d])
    /\ EventsFrame

\* verifyToken: verifyMagicLink succeeds, refresh(), startAutoSync()
HookVerify(d) ==
    /\ HookMounted
    /\ bus.authRequired[d]
    /\ verifyMagicLink(d)
    /\ bus' = [bus EXCEPT !.authRequired[d] = FALSE,
                          !.autoSync[d] = TRUE,
                          !.ui = refresh(@, meta'[d], lastError'[d])]
    /\ UNCHANGED demoVars

NextHook ==
    \/ HookMount(EngineDevice)
    \/ HookTrigger(EngineDevice)
    \/ HookPull(EngineDevice)
    \/ HookStep(EngineDevice)
    \/ HookFails(EngineDevice)
    \/ HookVerify(EngineDevice)
    \/ SessionExpires(EngineDevice)

SpecHook == Init /\ [][NextHook]_vars

LastEvent == IF bus.events = << >> THEN "" ELSE bus.events[Len(bus.events)]

\* the step ends a cycle in failure
CycleFails(d) == hist[d].outcome = "running" /\ hist'[d].outcome = "error"

\* a failed cycle records its error in SyncMeta and publishes one event:
\* sync:error, or auth:required when the server refused the session
FailureRecorded ==
    \A d \in Devices :
        CycleFails(d) =>
            /\ lastError'[d] # ""
            /\ lastError'[d] = hist'[d].failStage
            /\ Len(bus'.events) = Len(bus.events) + 1
            /\ bus'.events[Len(bus'.events)] =
                  IF hist'[d].failStage = "auth" THEN "auth:required" ELSE "sync:error"

\* what the hook shows after the handlers of sync:error and sync:completed
ShownError ==
    /\ LastEvent = "sync:error" =>
          /\ bus.ui.lastError = hist[HookDevice].failStage
          /\ bus.ui.lastError # ""
    /\ LastEvent = "sync:completed" => bus.ui.lastError = ""

RECURSIVE CountOf(_, _)
CountOf(events, types) ==
    IF events = << >> THEN 0
    ELSE (IF Head(events) \in types THEN 1 ELSE 0) + CountOf(Tail(events), types)

Unfinished ==
    CountOf(bus.events, {"sync:started"})
        - CountOf(bus.events, {"sync:completed", "sync:error"})

\* C37 (SpecHook): every started sync is reported finished to subscribers.
\* Each sync:started is followed by exactly one sync:completed or sync:error
\* before the next sync:started, on every path, an authentication failure
\* in mid-cycle included: while a cycle runs one sync:started is unanswered,
\* once the engine is idle none is, and the hook's isSyncing is false.
C37_StartedIsFinished ==
    LET d == HookDevice
    IN /\ Unfinished = IF engineState[d] = "Idle" THEN 0 ELSE 1
       /\ engineState[d] = "Idle" => ~bus.ui.isSyncing

\* --------------------------------------------- the sync toggle and sign-out
\* The user of device A, on the settings page, clicks the sync toggle
\* (disableSync when the page shows sync enabled, enableSync otherwise) and
\* Sign out, while the auto-sync timer starts cycles. Each useSync action
\* goes on at its awaits; bus.pc keeps where each one is.

\* syncEngine.startAutoSync() / stopAutoSync(): the recurring timer
startAutoSync(b, d) == [b EXCEPT !.autoSync[d] = TRUE]

stopAutoSync(b, d) == [b EXCEPT !.autoSync[d] = FALSE]

\* await updateSyncMeta({ syncEnabled })
updateSyncMeta(d, syncEnabled) == meta' = [meta EXCEPT ![d].syncEnabled = syncEnabled]

ToggleFrame == UNCHANGED <<syncVars, imageVars, storageVars, demoVars, authOp, sessions>>

\* onClick of the toggle, disabled while state.isSyncing: enableSync up to
\* its await, or disableSync up to its await (stopAutoSync has run)
ClickToggle(d) ==
    /\ HookMounted
    /\ ~bus.ui.isSyncing
    /\ IF bus.ui.syncEnabled
       THEN /\ bus.pc.disableSync = "idle"
            /\ bus' = [stopAutoSync(bus, d) EXCEPT !.pc.disableSync = "persist"]
       ELSE /\ bus.pc.enableSync = "idle"
            /\ bus' = [bus EXCEPT !.pc.enableSync = "persist"]
    /\ UNCHANGED meta
    /\ ToggleFrame

\* enableSync: updateSyncMeta({ syncEnabled: true }) has written
enableSyncPersist(d) ==
    /\ bus.pc.enableSync = "persist"
    /\ updateSyncMeta(d, TRUE)
    /\ bus' = [bus EXCEPT !.pc.enableSync = "start"]
    /\ ToggleFrame

\* enableSync: syncEngine.startAutoSync(); await refresh()
enableSyncStart(d) ==
    /\ bus.pc.enableSync = "start"
    /\ bus' = [startAutoSync(bus, d) EXCEPT !.pc.enableSync = "idle",
                                            !.ui = refresh(@, meta[d], lastError[d])]
    /\ UNCHANGED meta
    /\ ToggleFrame

\* disableSync: updateSyncMeta({ syncEnabled: false }) has written; refresh()
disableSyncPersist(d) ==
    /\ bus.pc.disableSync = "persist"
    /\ updateSyncMeta(d, FALSE)
    /\ bus' = [bus EXCEPT !.pc.disableSync = "idle",
                          !.ui = refresh(@, meta'[d], lastError[d])]
    /\ ToggleFrame

\* onClick of Sign out, disabled while isLoading or state.isSyncing:
\* logout runs stopAutoSync() and signOut() up to its first await
ClickLogout(d) ==
    /\ HookMounted
    /\ ~bus.ui.isSyncing
    /\ bus.pc.logout = "idle"
    /\ signOutStart(d)
    /\ bus' = [stopAutoSync(bus, d) EXCEPT !.pc.logout = "signOut"]

\* the awaited signOut() goes on
LogoutStep(d) ==
    /\ bus.pc.logout = "signOut"
    /\ \/ \E ok \in BOOLEAN : signOutFetch(d, ok)
       \/ signOutClear(d)
    /\ UNCHANGED busVars

\* signOut() has returned: await refresh()
LogoutDone(d) ==
    /\ bus.pc.logout = "signOut"
    /\ authOp[d].kind = "signOut" /\ authOp[d].stage = "done"
    /\ bus' = [bus EXCEPT !.pc.logout = "idle",
                          !.ui = refresh(@, meta[d], lastError[d])]
    /\ UNCHANGED meta
    /\ ToggleFrame

\* the timer fires: sync()
TimerTick(d) ==
    /\ bus.autoSync[d]
    /\ HookTrigger(d)

NextToggle ==
    \/ HookMount(EngineDevice)
    \/ ClickToggle(EngineDevice)
    \/ enableSyncPersist(EngineDevice)
    \/ enableSyncStart(EngineDevice)
    \/ disableSyncPersist(EngineDevice)
    \/ ClickLogout(EngineDevice)
    \/ LogoutStep(EngineDevice)
    \/ LogoutDone(EngineDevice)
    \/ TimerTick(EngineDevice)
    \/ HookPull(EngineDevice)
    \/ HookStep(EngineDevice)
    \/ HookFails(EngineDevice)

SpecToggle == Init /\ [][NextToggle]_vars

\* the timer is running only while the persisted syncEnabled is true
TimerOnlyWhileEnabled == \A d \in Devices : bus.autoSync[d] => meta[d].syncEnabled

\* a step of disableSync: the first stops the timer, the second persists
\* syncEnabled = false; neither touches the engine or its running cycle
DisableLeavesCycle ==
    \A d \in Devices :
        bus'.pc.disableSync # bus.pc.disableSync =>
            /\ UNCHANGED <<engineVars, cycles, hist, outbox>>
            /\ bus'.events = bus.events
            /\ bus'.pc.disableSync = "persist" => ~bus'.autoSync[HookDevice]
            /\ bus'.pc.disableSync = "idle" => ~meta'[HookDevice].syncEnabled

\* C33 (SpecToggle): disabling sync only stops future scheduled cycles.
\* disableSync stops the auto-sync timer and persists syncEnabled = false
\* and leaves a running cycle alone; and in every state that enableSync,
\* disableSync and logout pass through the timer is running only while the
\* persisted syncEnabled is true.
C33_DisableStopsOnlyTimer == []TimerOnlyWhileEnabled /\ [][DisableLeavesCycle]_vars

====
